---- MODULE Spec2Model ----
(***************************************************************************)
(* A model of the DICOM viewer's viewport transform, measurement overlay   *)
(* and interaction state machine.                                          *)
(*                                                                         *)
(* Part I    the viewer of static/js/viewerController.js (one <img>, one   *)
(*           overlay canvas, the state objects viewer.viewerState and      *)
(*           viewer.measurementState).  Lengths are whole pixels.  The     *)
(*           pointer moves on a grid whose step is twice the click radius, *)
(*           the image scale is 1 (the "100%" button) or the fit scale 2,  *)
(*           so that every division the source performs is exact.          *)
(* Part II   the coordinate transforms of the modular viewer               *)
(*           (ImageDisplayModule, MeasurementModule).                      *)
(* Part III  the render pipeline of the modular viewer (transform, store,  *)
(*           appState notifications, overlay pass, resize, timers), and    *)
(*           the measurement engine called with every kind of argument.    *)
(***************************************************************************)
EXTENDS Integers, Sequences, FiniteSets, TLC

\* ------------------------------------------------------------------ bounds
\* The pointer visits viewer x coordinates 0, GridStep .. MaxGridX * GridStep.
MaxGridX == 1
\* The pointer visits viewer y coordinates 0, GridStep .. MaxGridY * GridStep.
MaxGridY == 0
\* Panning moves the image right and down by at most MaxPan grid steps.
MaxPan == 1
\* Captured and dragged points stay within image columns 0 .. MaxImageX
\* and image rows 0 .. MaxImageY.
MaxImageX == 10
MaxImageY == 10
\* Measurement objects created over a run.
MaxMeasurements == 2
\* Points captured for one Area measurement.
MaxCurrentPoints == 3
\* img.naturalWidth and img.naturalHeight, in pixels.
NaturalWidth == 40
NaturalHeight == 40
\* Click listeners on the image: showViewer runs up to MaxListeners times.
MaxListeners == 2

\* ------------------------------------------------------- program constants
\* getClickedMeasurement: const clickRadius = 10
ClickRadius == 10
\* getClickedMeasurementPoint: const clickRadius = 8
PointClickRadius == 8
\* getClickedMeasurementPoint: isPointOnLine(point, ..., 6)
LineClickTolerance == 6
\* fitImageToContainer: viewer.clientWidth - 32
ContainerPadX == 32
\* fitImageToContainer: viewer.clientHeight - 120
ContainerPadY == 120
\* selectedMeasurement: null
NoRef == 0
\* selectedPointIndex: -1
NoIndex == -1

GridStep == 2 * ClickRadius
\* The viewer element is sized so that the fit scale is exactly 2.
ViewerClientWidth == 2 * NaturalWidth + ContainerPadX
ViewerClientHeight == 2 * NaturalHeight + ContainerPadY

PointerPositions ==
  { [x |-> i * GridStep, y |-> j * GridStep] : i \in 0..MaxGridX, j \in 0..MaxGridY }

Min(a, b) == IF a <= b THEN a ELSE b
Max(a, b) == IF a >= b THEN a ELSE b
Abs(a) == IF a < 0 THEN -a ELSE a

\* ------------------------------------------------------------- arithmetic
RECURSIVE ISqrtIn(_, _, _)
ISqrtIn(n, lo, hi) ==
  IF lo >= hi THEN lo
  ELSE LET mid == (lo + hi + 1) \div 2
       IN IF mid * mid <= n THEN ISqrtIn(n, mid, hi) ELSE ISqrtIn(n, lo, mid - 1)

\* Math.sqrt, rounded down to a whole number.
ISqrt(n) == ISqrtIn(n, 0, Min(n, 46340))

\* 10000 * cos(d degrees), d = 0 .. 90.
CosTable ==
  << 10000, 9998, 9994, 9986, 9976, 9962, 9945, 9925, 9903, 9877, 9848, 9816,
     9781, 9744, 9703, 9659, 9613, 9563, 9511, 9455, 9397, 9336, 9272, 9205,
     9135, 9063, 8988, 8910, 8829, 8746, 8660, 8572, 8480, 8387, 8290, 8192,
     8090, 7986, 7880, 7771, 7660, 7547, 7431, 7314, 7193, 7071, 6947, 6820,
     6691, 6561, 6428, 6293, 6157, 6018, 5878, 5736, 5592, 5446, 5299, 5150,
     5000, 4848, 4695, 4540, 4384, 4226, 4067, 3907, 3746, 3584, 3420, 3256,
     3090, 2924, 2756, 2588, 2419, 2250, 2079, 1908, 1736, 1564, 1392, 1219,
     1045, 872, 698, 523, 349, 175, 0 >>

Cos10000(d) == IF d <= 90 THEN CosTable[d + 1] ELSE -CosTable[181 - d]

\* Math.acos(c / 10000) * 180 / Math.PI, to the nearest whole degree.
AcosDeg(c) ==
  Cardinality({ d \in 1..180 : Cos10000(d - 1) + Cos10000(d) >= 2 * c })

\* ------------------------------------------------------------------ state
VARIABLES
  viewerState,       \* viewer.viewerState
  measurementState,  \* viewer.measurementState
  img,               \* the <img>: dataset.scale, style.left, style.top, and how many
                     \* click listeners setupImageEvents has added to it
  pointer,           \* where the mouse is, in viewer coordinates
  pressed,           \* a button went down on the image and is still down
  clickPending,      \* the browser owes the image a click after the mouseup
  event              \* the handler that last changed a state object or the image

legacyVars ==
  << viewerState, measurementState, img, pointer, pressed, clickPending, event >>

NoDragTarget == [kind |-> "none", measurement |-> NoRef, pointIndex |-> NoIndex]
ImageDragTarget == [kind |-> "image", measurement |-> NoRef, pointIndex |-> NoIndex]

\* ------------------------------------------------------------- geometry
ImgWidth(im) == NaturalWidth * im.scale
ImgHeight(im) == NaturalHeight * im.scale

\* The layout puts the image's corner on the viewer's when style.left/top are 0.
OverImage(e, im) ==
  /\ im.left <= e.x /\ e.x <= im.left + ImgWidth(im)
  /\ im.top <= e.y /\ e.y <= im.top + ImgHeight(im)

fitScale ==
  Min((ViewerClientWidth - ContainerPadX) \div NaturalWidth,
      (ViewerClientHeight - ContainerPadY) \div NaturalHeight)

\* x, y: viewer coordinates; imageX, imageY: relativeX * naturalWidth, unclamped.
getImagePoint(e, im) ==
  [ x |-> e.x, y |-> e.y,
    imageX |-> ((e.x - im.left) * NaturalWidth) \div ImgWidth(im),
    imageY |-> ((e.y - im.top) * NaturalHeight) \div ImgHeight(im) ]

\* A captured point keeps its image coordinates; relativeX is imageX / naturalWidth.
StoredPoint(pt) == [imageX |-> pt.imageX, imageY |-> pt.imageY]

getScreenCoordinates(p, im) ==
  [ x |-> im.left + (p.imageX * ImgWidth(im)) \div NaturalWidth,
    y |-> im.top + (p.imageY * ImgHeight(im)) \div NaturalHeight ]

DistSq(a, b) == (a.x - b.x) * (a.x - b.x) + (a.y - b.y) * (a.y - b.y)

isPointOnLine(point, lineStart, lineEnd, tolerance) ==
  LET A == point.x - lineStart.x
      B == point.y - lineStart.y
      C == lineEnd.x - lineStart.x
      D == lineEnd.y - lineStart.y
      dot == A * C + B * D
      lenSq == C * C + D * D
      cross == A * D - B * C
  IN IF lenSq = 0 THEN FALSE
     ELSE IF dot < 0 \/ dot > lenSq THEN FALSE
     ELSE Abs(cross) <= ISqrt(tolerance * tolerance * lenSq)

\* ------------------------------------------------------- measurement values
\* Values are held in hundredths, labels (toFixed(1)) in tenths.
calculateDistance(p1, p2) ==
  LET dx == p2.imageX - p1.imageX
      dy == p2.imageY - p1.imageY
  IN ISqrt(10000 * (dx * dx + dy * dy))

\* calculateAngle taking an arm of zero length for a right angle
calculateAngleOfZeroArm(p1, vertex, p2) ==
  LET v1x == p1.imageX - vertex.imageX
      v1y == p1.imageY - vertex.imageY
      v2x == p2.imageX - vertex.imageX
      v2y == p2.imageY - vertex.imageY
      dot == v1x * v2x + v1y * v2y
      mag1Sq == v1x * v1x + v1y * v1y
      mag2Sq == v2x * v2x + v2y * v2y
  IN IF mag1Sq = 0 \/ mag2Sq = 0 THEN 9000
     ELSE LET cosAngle == (dot * 10000) \div ISqrt(mag1Sq * mag2Sq)
          IN 100 * AcosDeg(Max(-10000, Min(10000, cosAngle)))

calculateAngle(p1, vertex, p2) ==
  LET v1x == p1.imageX - vertex.imageX
      v1y == p1.imageY - vertex.imageY
      v2x == p2.imageX - vertex.imageX
      v2y == p2.imageY - vertex.imageY
      dot == v1x * v2x + v1y * v2y
      mag1Sq == v1x * v1x + v1y * v1y
      mag2Sq == v2x * v2x + v2y * v2y
  IN IF mag1Sq = 0 \/ mag2Sq = 0 THEN 0
     ELSE LET cosAngle == (dot * 10000) \div ISqrt(mag1Sq * mag2Sq)
          IN 100 * AcosDeg(Max(-10000, Min(10000, cosAngle)))

RECURSIVE ShoelaceSum(_, _)
ShoelaceSum(points, i) ==
  IF i > Len(points) THEN 0
  ELSE LET j == (i % Len(points)) + 1
       IN points[i].imageX * points[j].imageY
          - points[j].imageX * points[i].imageY
          + ShoelaceSum(points, i + 1)

calculateArea(points) ==
  IF Len(points) < 3 THEN 0 ELSE (100 * Abs(ShoelaceSum(points, 1))) \div 2

\* value.toFixed(1), in tenths
ToFixed1(value) == (value + 5) \div 10

NoLabel == [tenths |-> 0, unit |-> "none"]

\* The measurement with value and label recomputed from its points.
recalculateMeasurement(m) ==
  IF m.type = "distance" /\ Len(m.points) >= 2
  THEN LET v == calculateDistance(m.points[1], m.points[2])
       IN [m EXCEPT !.value = v, !.label = [tenths |-> ToFixed1(v), unit |-> "px"]]
  ELSE IF m.type = "angle" /\ Len(m.points) >= 3
  THEN LET v == calculateAngle(m.points[1], m.points[2], m.points[3])
       IN [m EXCEPT !.value = v, !.label = [tenths |-> ToFixed1(v), unit |-> "deg"]]
  ELSE IF m.type = "area" /\ Len(m.points) >= 3
  THEN LET v == calculateArea(m.points)
       IN [m EXCEPT !.value = v, !.label = [tenths |-> ToFixed1(v), unit |-> "px2"]]
  ELSE m

\* ------------------------------------------------------------ hit testing
Refs(measurements) == { measurements[i].ref : i \in 1..Len(measurements) }

\* The listed measurement object a reference points at.
Deref(measurements, r) ==
  measurements[CHOOSE i \in 1..Len(measurements) : measurements[i].ref = r]

ScreenPoints(m, im) ==
  [i \in 1..Len(m.points) |-> getScreenCoordinates(m.points[i], im)]

HitsMeasurement(point, m, im) ==
  LET screenPoints == ScreenPoints(m, im)
  IN \/ \E i \in 1..Len(screenPoints) :
          DistSq(point, screenPoints[i]) <= ClickRadius * ClickRadius
     \/ /\ m.type = "distance"
        /\ Len(screenPoints) = 2
        /\ isPointOnLine(point, screenPoints[1], screenPoints[2], ClickRadius)

\* The first listed measurement under the pointer, or null.
getClickedMeasurement(e, measurements, im) ==
  LET point == getImagePoint(e, im)
      hits == { i \in 1..Len(measurements) : HitsMeasurement(point, measurements[i], im) }
  IN IF hits = {} THEN NoRef
     ELSE measurements[CHOOSE i \in hits : \A k \in hits : i <= k].ref

\* The point of measurement m under the pointer: its 0-based index, or null.
getClickedMeasurementPoint(e, m, im) ==
  LET point == getImagePoint(e, im)
      screenPoints == ScreenPoints(m, im)
      near == { i \in 1..Len(screenPoints) :
                  DistSq(point, screenPoints[i]) <= PointClickRadius * PointClickRadius }
  IN IF near # {}
     THEN [found |-> TRUE, pointIndex |-> (CHOOSE i \in near : \A k \in near : i <= k) - 1]
     ELSE IF /\ m.type = "distance"
             /\ Len(screenPoints) = 2
             /\ isPointOnLine(point, screenPoints[1], screenPoints[2], LineClickTolerance)
     THEN [found |-> TRUE,
           pointIndex |-> IF DistSq(point, screenPoints[1]) < DistSq(point, screenPoints[2])
                          THEN 0 ELSE 1]
     ELSE [found |-> FALSE, pointIndex |-> NoIndex]

\* ------------------------------------------------- state-changing functions
\* st is the pair [viewerState, measurementState] the function works on.
\* setViewerMode with the capture left in place on entering Pan.
setViewerModeKeepsPoints(st, mode) ==
  LET vs == [st.viewerState EXCEPT !.mode = mode]
      ms == [st.measurementState EXCEPT !.selectedMeasurement = NoRef,
                                        !.selectedPointIndex = NoIndex]
  IN [ viewerState |-> vs,
       measurementState |->
         IF mode = "pan"
         THEN [ms EXCEPT !.mode = "none", !.isDrawing = FALSE]
         ELSE ms ]

setViewerMode(st, mode) ==
  LET vs == [st.viewerState EXCEPT !.mode = mode]
      ms == [st.measurementState EXCEPT !.selectedMeasurement = NoRef,
                                        !.selectedPointIndex = NoIndex]
  IN [ viewerState |-> vs,
       measurementState |->
         IF mode = "pan"
         THEN [ms EXCEPT !.mode = "none", !.isDrawing = FALSE, !.currentPoints = << >>]
         ELSE ms ]

\* setMeasurementMode with the selection left in place.
setMeasurementModeKeepsSelection(st, mode) ==
  LET st1 == IF st.viewerState.mode # "select" THEN setViewerMode(st, "select") ELSE st
  IN [ viewerState |-> st1.viewerState,
       measurementState |->
         [st1.measurementState EXCEPT !.isDrawing = FALSE,
                                      !.currentPoints = << >>,
                                      !.mode = mode] ]

setMeasurementMode(st, mode) ==
  LET st1 == IF st.viewerState.mode # "select" THEN setViewerMode(st, "select") ELSE st
  IN [ viewerState |-> st1.viewerState,
       measurementState |->
         [st1.measurementState EXCEPT !.selectedMeasurement = NoRef,
                                      !.selectedPointIndex = NoIndex,
                                      !.isDrawing = FALSE,
                                      !.currentPoints = << >>,
                                      !.mode = mode] ]

\* A reference no live object holds: the identity of a new measurement object.
NewRef(ms, vs) ==
  CHOOSE r \in 1..(MaxMeasurements + 1) :
    r \notin Refs(ms.measurements) \cup {vs.dragTarget.measurement}

completeMeasurement(ms, vs) ==
  LET measurement == recalculateMeasurement(
        [ ref |-> NewRef(ms, vs), type |-> ms.mode, points |-> ms.currentPoints,
          value |-> 0, label |-> NoLabel ])
  IN [ms EXCEPT !.measurements = Append(@, measurement),
                !.currentPoints = << >>,
                !.mode = "none",
                !.selectedMeasurement = measurement.ref,
                !.selectedPointIndex = NoIndex]

\* handleMeasurementClick with the Angle tool completing at two points.
handleMeasurementClickAngleAtTwo(ms, vs) ==
  IF ms.mode = "distance" /\ Len(ms.currentPoints) = 2 THEN completeMeasurement(ms, vs)
  ELSE IF ms.mode = "angle" /\ Len(ms.currentPoints) = 2 THEN completeMeasurement(ms, vs)
  ELSE ms

\* handleMeasurementClick with the Distance tool completing at three points.
handleMeasurementClickDistanceAtThree(ms, vs) ==
  IF ms.mode = "distance" /\ Len(ms.currentPoints) = 3 THEN completeMeasurement(ms, vs)
  ELSE IF ms.mode = "angle" /\ Len(ms.currentPoints) = 3 THEN completeMeasurement(ms, vs)
  ELSE ms

handleMeasurementClick(ms, vs) ==
  IF ms.mode = "distance" /\ Len(ms.currentPoints) = 2 THEN completeMeasurement(ms, vs)
  ELSE IF ms.mode = "angle" /\ Len(ms.currentPoints) = 3 THEN completeMeasurement(ms, vs)
  ELSE ms

clearAllMeasurements(ms) ==
  [ms EXCEPT !.measurements = << >>,
             !.currentPoints = << >>,
             !.selectedMeasurement = NoRef,
             !.selectedPointIndex = NoIndex,
             !.mode = "none"]

\* MovePoint without the recalculation.
MovePointKeepsValue(measurements, r, pointIndex, point) ==
  [ i \in 1..Len(measurements) |->
      IF measurements[i].ref = r
      THEN [measurements[i] EXCEPT !.points[pointIndex + 1] = point]
      ELSE measurements[i] ]

\* measurement.points[pointIndex] = point; recalculateMeasurement(measurement),
\* on the object r refers to (an object no longer listed is out of sight).
MovePoint(measurements, r, pointIndex, point) ==
  [ i \in 1..Len(measurements) |->
      IF measurements[i].ref = r
      THEN recalculateMeasurement(
             [measurements[i] EXCEPT !.points[pointIndex + 1] = point])
      ELSE measurements[i] ]

\* ------------------------------------------------------------------ Init
\* The state initializeImageViewer leaves: both state objects fresh, the image
\* fitted to the container and unpanned.
\* initializeImageViewer: viewer.viewerState, viewer.measurementState
InitialViewerState ==
  [ mode |-> "select", isDragging |-> FALSE, dragTarget |-> NoDragTarget,
    startX |-> 0, startY |-> 0, startLeft |-> 0, startTop |-> 0 ]
InitialMeasurementState ==
  [ mode |-> "none", isDrawing |-> FALSE, currentPoints |-> << >>,
    measurements |-> << >>, selectedMeasurement |-> NoRef,
    selectedPointIndex |-> NoIndex ]

\* The viewer after showViewer has run once and the image has loaded.
LegacyInit ==
  /\ viewerState = InitialViewerState
  /\ measurementState = InitialMeasurementState
  /\ img = [scale |-> fitScale, left |-> 0, top |-> 0, listeners |-> 1]
  /\ pointer = [x |-> 0, y |-> 0]
  /\ pressed = FALSE
  /\ clickPending = FALSE
  /\ event = "init"

State == [viewerState |-> viewerState, measurementState |-> measurementState]

\* event names the handler that last changed a state object or the image.
Records(name) ==
  event' = IF << viewerState', measurementState', img' >> # << viewerState, measurementState, img >>
           THEN name ELSE event

\* --------------------------------------------------------------- toolbar
\* controls.modeSelect / controls.modePan click
ModeButton(mode) ==
  /\ ~clickPending
  /\ viewerState' = setViewerMode(State, mode).viewerState
  /\ measurementState' = setViewerMode(State, mode).measurementState
  /\ UNCHANGED << img, pointer, pressed, clickPending >>
  /\ Records("setViewerMode")

\* controls.measureDistance / measureAngle / measureArea click
MeasureButton(mode) ==
  /\ ~clickPending
  /\ viewerState' = setMeasurementMode(State, mode).viewerState
  /\ measurementState' = setMeasurementMode(State, mode).measurementState
  /\ UNCHANGED << img, pointer, pressed, clickPending >>
  /\ Records("setMeasurementMode")

\* controls.clearMeasurements click
ClearMeasurementsButton ==
  /\ ~clickPending
  /\ measurementState' = clearAllMeasurements(measurementState)
  /\ UNCHANGED << viewerState, img, pointer, pressed, clickPending >>
  /\ Records("clearAllMeasurements")

\* controls.zoom100 click
Zoom100Button ==
  /\ ~clickPending
  /\ img' = [img EXCEPT !.scale = 1]
  /\ UNCHANGED << viewerState, measurementState, pointer, pressed, clickPending >>
  /\ Records("zoom100")

\* controls.zoomFit click
ZoomFitButton ==
  /\ ~clickPending
  /\ img' = [img EXCEPT !.scale = fitScale]
  /\ UNCHANGED << viewerState, measurementState, pointer, pressed, clickPending >>
  /\ Records("zoomFit")

\* ------------------------------------------------------------ mouse events
\* img mousedown, at the pointer
handleMouseDown ==
  /\ ~pressed /\ ~clickPending
  /\ OverImage(pointer, img)
  /\ pressed' = TRUE
  /\ IF viewerState.mode = "pan"
     THEN /\ viewerState' = [viewerState EXCEPT !.isDragging = TRUE,
                                                !.dragTarget = ImageDragTarget,
                                                !.startX = pointer.x,
                                                !.startY = pointer.y,
                                                !.startLeft = img.left,
                                                !.startTop = img.top]
          /\ UNCHANGED measurementState
     ELSE IF /\ viewerState.mode = "select"
             /\ measurementState.mode = "none"
             /\ measurementState.selectedMeasurement # NoRef
     THEN LET clickedPoint ==
                getClickedMeasurementPoint(pointer,
                  Deref(measurementState.measurements, measurementState.selectedMeasurement),
                  img)
          IN IF clickedPoint.found
             THEN /\ viewerState' =
                       [viewerState EXCEPT
                          !.isDragging = TRUE,
                          !.dragTarget =
                             [ kind |-> "point",
                               measurement |-> measurementState.selectedMeasurement,
                               pointIndex |-> clickedPoint.pointIndex ]]
                  /\ measurementState' =
                       [measurementState EXCEPT
                          !.selectedPointIndex = clickedPoint.pointIndex]
             ELSE UNCHANGED << viewerState, measurementState >>
     ELSE UNCHANGED << viewerState, measurementState >>
  /\ UNCHANGED << img, pointer, clickPending >>
  /\ Records("mousedown")

\* document mousemove: the pointer goes to p
handleMouseMove(p) ==
  /\ ~clickPending
  /\ p # pointer
  /\ pointer' = p
  /\ IF ~viewerState.isDragging
     THEN UNCHANGED << img, measurementState >>
     ELSE IF viewerState.dragTarget.kind = "image"
     THEN /\ img' = [img EXCEPT !.left = viewerState.startLeft + (p.x - viewerState.startX),
                                 !.top = viewerState.startTop + (p.y - viewerState.startY)]
          /\ UNCHANGED measurementState
     ELSE IF viewerState.dragTarget.kind = "point"
     THEN /\ measurementState' =
               [measurementState EXCEPT
                  !.measurements =
                     MovePoint(@, viewerState.dragTarget.measurement,
                               viewerState.dragTarget.pointIndex,
                               StoredPoint(getImagePoint(p, img)))]
          /\ UNCHANGED img
     ELSE UNCHANGED << img, measurementState >>
  /\ UNCHANGED << viewerState, pressed, clickPending >>
  /\ Records("mousemove")

\* document mouseup; a click follows when the primary button is released over
\* the image, none when it is released elsewhere or it was another button
handleMouseUp ==
  /\ pressed
  /\ pressed' = FALSE
  /\ clickPending' \in {OverImage(pointer, img), FALSE}
  /\ measurementState' =
       IF viewerState.isDragging /\ viewerState.dragTarget.kind = "point"
       THEN [measurementState EXCEPT !.selectedPointIndex = NoIndex]
       ELSE measurementState
  /\ viewerState' = [viewerState EXCEPT !.isDragging = FALSE, !.dragTarget = NoDragTarget]
  /\ UNCHANGED << img, pointer >>
  /\ Records("mouseup")

\* handleImageClick with a click on the selected measurement keeping it selected.
handleImageClickNoToggle ==
  /\ clickPending
  /\ clickPending' = FALSE
  /\ IF viewerState.isDragging THEN UNCHANGED measurementState
     ELSE IF viewerState.mode # "select" THEN UNCHANGED measurementState
     ELSE IF measurementState.mode # "none"
     THEN measurementState' =
            handleMeasurementClick(
              [measurementState EXCEPT
                 !.currentPoints = Append(@, StoredPoint(getImagePoint(pointer, img)))],
              viewerState)
     ELSE LET clickedMeasurement ==
                getClickedMeasurement(pointer, measurementState.measurements, img)
          IN measurementState' =
               [measurementState EXCEPT !.selectedMeasurement = clickedMeasurement,
                                        !.selectedPointIndex = NoIndex]
  /\ UNCHANGED << viewerState, img, pointer, pressed >>
  /\ Records("click")

\* img click, at the pointer
handleImageClick ==
  /\ clickPending
  /\ clickPending' = FALSE
  /\ IF viewerState.isDragging THEN UNCHANGED measurementState
     ELSE IF viewerState.mode # "select" THEN UNCHANGED measurementState
     ELSE IF measurementState.mode # "none"
     THEN measurementState' =
            handleMeasurementClick(
              [measurementState EXCEPT
                 !.currentPoints = Append(@, StoredPoint(getImagePoint(pointer, img)))],
              viewerState)
     ELSE LET clickedMeasurement ==
                getClickedMeasurement(pointer, measurementState.measurements, img)
          IN measurementState' =
               IF clickedMeasurement # NoRef
               THEN IF measurementState.selectedMeasurement = clickedMeasurement
                    THEN [measurementState EXCEPT !.selectedMeasurement = NoRef,
                                                  !.selectedPointIndex = NoIndex]
                    ELSE [measurementState EXCEPT !.selectedMeasurement = clickedMeasurement,
                                                  !.selectedPointIndex = NoIndex]
               ELSE IF measurementState.selectedMeasurement # NoRef
               THEN [measurementState EXCEPT !.selectedMeasurement = NoRef,
                                             !.selectedPointIndex = NoIndex]
               ELSE measurementState
  /\ UNCHANGED << viewerState, img, pointer, pressed >>
  /\ Records("click")

\* handleImageClick as one listener runs it: the measurement state after it.
handleImageClickOnce(ms, vs, e, im) ==
  IF vs.isDragging \/ vs.mode # "select" THEN ms
  ELSE IF ms.mode # "none"
  THEN handleMeasurementClick(
         [ms EXCEPT !.currentPoints = Append(@, StoredPoint(getImagePoint(e, im)))], vs)
  ELSE LET clickedMeasurement == getClickedMeasurement(e, ms.measurements, im)
       IN IF clickedMeasurement # NoRef
          THEN IF ms.selectedMeasurement = clickedMeasurement
               THEN [ms EXCEPT !.selectedMeasurement = NoRef, !.selectedPointIndex = NoIndex]
               ELSE [ms EXCEPT !.selectedMeasurement = clickedMeasurement,
                               !.selectedPointIndex = NoIndex]
          ELSE IF ms.selectedMeasurement # NoRef
          THEN [ms EXCEPT !.selectedMeasurement = NoRef, !.selectedPointIndex = NoIndex]
          ELSE ms

\* The n click listeners of the image run one after the other.
RECURSIVE clickListeners(_, _, _, _, _)
clickListeners(n, ms, vs, e, im) ==
  IF n = 0 THEN ms
  ELSE clickListeners(n - 1, handleImageClickOnce(ms, vs, e, im), vs, e, im)

\* img click, at the pointer, dispatched to every listener added so far
imageClick ==
  /\ clickPending
  /\ clickPending' = FALSE
  /\ measurementState' =
       clickListeners(img.listeners, measurementState, viewerState, pointer, img)
  /\ UNCHANGED << viewerState, img, pointer, pressed >>
  /\ Records("click")

\* showViewer() once more: loadDicomImage, and at the image's load
\* initializeImageViewer, whose setupImageEvents adds its listeners to the
\* same <img>.
showViewer ==
  /\ ~clickPending
  /\ img.listeners < MaxListeners
  /\ viewerState' = InitialViewerState
  /\ measurementState' = InitialMeasurementState
  /\ img' = [scale |-> fitScale, left |-> 0, top |-> 0, listeners |-> img.listeners + 1]
  /\ UNCHANGED << pointer, pressed, clickPending >>
  /\ Records("showViewer")

\* handleContextMenu completing an Area at two points.
handleContextMenuAtTwo ==
  /\ ~clickPending
  /\ OverImage(pointer, img)
  /\ IF measurementState.mode = "area" /\ Len(measurementState.currentPoints) >= 2
     THEN measurementState' = completeMeasurement(measurementState, viewerState)
     ELSE UNCHANGED measurementState
  /\ UNCHANGED << viewerState, img, pointer, pressed, clickPending >>
  /\ Records("contextmenu")

\* img contextmenu, at the pointer
handleContextMenu ==
  /\ ~clickPending
  /\ OverImage(pointer, img)
  /\ IF measurementState.mode = "area" /\ Len(measurementState.currentPoints) >= 3
     THEN measurementState' = completeMeasurement(measurementState, viewerState)
     ELSE UNCHANGED measurementState
  /\ UNCHANGED << viewerState, img, pointer, pressed, clickPending >>
  /\ Records("contextmenu")

\* ==========================================================================
\* Part II   the coordinate transforms of ImageDisplayModule and of
\*           MeasurementModule's overlay pass.
\*
\* Image coordinates and translations are in tenths of a pixel, the scale is
\* in percent, canvas coordinates are in thousandths of a pixel (tenths times
\* percent), rotations are whole quarter turns, so the arithmetic is exact.
\* ==========================================================================
\* imageData.width and imageData.height, in pixels.
ImageWidth == 20
ImageHeight == 20
\* canvas.width and canvas.height, in pixels.
CanvasWidth == 40
CanvasHeight == 40
\* Translations range over 0 .. MaxTranslate pixels.
MaxTranslate == 1

\* fitToCanvas: Math.min(scaleX, scaleY) * 0.9, in percent
FitMarginPercent == 90

IdentityTransform ==
  [scale |-> 100, translateX |-> 0, translateY |-> 0, rotation |-> 0]

\* fitToCanvas: the scale for a canvas of the given size, in percent.
FitScale(width, height) ==
  (Min((100 * width) \div ImageWidth, (100 * height) \div ImageHeight)
     * FitMarginPercent) \div 100

\* fitToCanvas: the transform it applies.
FitTransform ==
  [ scale |-> FitScale(CanvasWidth, CanvasHeight),
    translateX |-> 0, translateY |-> 0, rotation |-> 0 ]

Scales == {50, 100, FitTransform.scale}
Rotations == {0, 90, 180, 270}
Translations == { 10 * t : t \in 0..MaxTranslate }

TransformStates ==
  [scale : Scales, translateX : Translations, translateY : Translations,
   rotation : Rotations]

\* Image points inside the image bounds, on and off the pixel grid.
ImagePoints ==
  [ imageX : {0, 4, 5, 10 * (ImageWidth \div 2), 10 * (ImageWidth - 1)},
    imageY : {0, 15, 10 * (ImageHeight - 1)} ]

\* Math.cos and Math.sin of a whole number of quarter turns.
CosQuarter(deg) == IF deg = 0 THEN 1 ELSE IF deg = 180 THEN -1 ELSE 0
SinQuarter(deg) == IF deg = 90 THEN 1 ELSE IF deg = 270 THEN -1 ELSE 0

\* ctx.rotate(deg * Math.PI / 180) applied to a vector.
Rotate(v, deg) ==
  [ x |-> v.x * CosQuarter(deg) - v.y * SinQuarter(deg),
    y |-> v.x * SinQuarter(deg) + v.y * CosQuarter(deg) ]

\* ImageDisplayModule.render: where the image pixel p lands on the image canvas
\* under translate(centre), scale, rotate, translate(t), translate(-size / 2).
ImageLayerPosition(tr, p) ==
  LET local == Rotate([ x |-> p.imageX + tr.translateX - 5 * ImageWidth,
                        y |-> p.imageY + tr.translateY - 5 * ImageHeight ],
                      tr.rotation)
  IN [ x |-> 500 * CanvasWidth + tr.scale * local.x,
       y |-> 500 * CanvasHeight + tr.scale * local.y ]

\* MeasurementModule.renderMeasurements and drawMeasurement: where a measurement
\* point p lands on the measurement canvas under translate(centre), scale,
\* translate(t), drawn at p - size / 2.
OverlayLayerPosition(tr, p) ==
  [ x |-> 500 * CanvasWidth
            + tr.scale * (tr.translateX + (p.imageX - 5 * ImageWidth)),
    y |-> 500 * CanvasHeight
            + tr.scale * (tr.translateY + (p.imageY - 5 * ImageHeight)) ]

\* ImageDisplayModule.imageToCanvasCoords
imageToCanvasCoords(tr, imageX, imageY) ==
  [ x |-> (imageX - 5 * ImageWidth + tr.translateX) * tr.scale + 500 * CanvasWidth,
    y |-> (imageY - 5 * ImageHeight + tr.translateY) * tr.scale + 500 * CanvasHeight ]

\* Math.round of the fraction num / den of a pixel (den > 0): floor(v + 1/2).
RoundFraction(num, den) == (2 * num + den) \div (2 * den)

\* ImageDisplayModule.canvasToImageCoords.  The image coordinate before
\* rounding is the fraction num / (10 * tr.scale) of a pixel.
canvasToImageCoords(tr, canvasX, canvasY) ==
  LET den == 10 * tr.scale
      numX == (canvasX - 500 * CanvasWidth)
                + (5 * ImageWidth - tr.translateX) * tr.scale
      numY == (canvasY - 500 * CanvasHeight)
                + (5 * ImageHeight - tr.translateY) * tr.scale
  IN [ x |-> RoundFraction(Max(0, Min((ImageWidth - 1) * den, numX)), den),
       y |-> RoundFraction(Max(0, Min((ImageHeight - 1) * den, numY)), den),
       imageX |-> RoundFraction(numX, den),
       imageY |-> RoundFraction(numY, den) ]

VARIABLES
  transformIn,   \* the TransformState the functions are applied under
  pointIn,       \* the image point they are applied to
  computed       \* what the last application returned

coordVars == << transformIn, pointIn, computed >>

NothingComputed == [op |-> "none"]

\* One transform, one point, nothing computed yet.
CoordFresh ==
  /\ transformIn = IdentityTransform
  /\ pointIn = [imageX |-> 0, imageY |-> 0]
  /\ computed = NothingComputed

\* Any transform and any image point inside the image.
CoordInputs ==
  /\ transformIn \in TransformStates
  /\ pointIn \in ImagePoints
  /\ computed = NothingComputed

\* Both render passes place the point.
DrawOnBothLayers ==
  /\ computed' = [ op |-> "draw",
                   image |-> ImageLayerPosition(transformIn, pointIn),
                   overlay |-> OverlayLayerPosition(transformIn, pointIn) ]
  /\ UNCHANGED << transformIn, pointIn >>

\* canvasToImageCoords applied to the result of imageToCanvasCoords.
RoundTrip ==
  LET canvas == imageToCanvasCoords(transformIn, pointIn.imageX, pointIn.imageY)
  IN /\ computed' = [ op |-> "roundTrip",
                      canvas |-> canvas,
                      image |-> canvasToImageCoords(transformIn, canvas.x, canvas.y) ]
     /\ UNCHANGED << transformIn, pointIn >>

\* MeasurementModule.normalizePoint
normalizePoint(imageCoords) ==
  [ x |-> imageCoords.x,
    y |-> imageCoords.y,
    imageX |-> IF imageCoords.imageX # 0 THEN imageCoords.imageX ELSE imageCoords.x,
    imageY |-> IF imageCoords.imageY # 0 THEN imageCoords.imageY ELSE imageCoords.y ]

\* Where on the canvas a click lands: its corners, the middles of its edges
\* and its centre, in thousandths of a pixel.
CanvasPositions ==
  { [x |-> x, y |-> y] : x \in {0, 500 * CanvasWidth, 1000 * CanvasWidth},
                         y \in {0, 500 * CanvasHeight, 1000 * CanvasHeight} }

\* InteractionModule's click with a tool active: getImageCoords, then
\* MeasurementModule.onInteraction_click and addMeasurementPoint capture the
\* point.
CapturePoint(canvas) ==
  /\ computed' = [ op |-> "capture",
                   canvas |-> canvas,
                   point |-> normalizePoint(
                               canvasToImageCoords(transformIn, canvas.x, canvas.y)) ]
  /\ UNCHANGED << transformIn, pointIn >>

\* ==========================================================================
\* Part III  the render pipeline of the modular viewer: ImageDisplayModule's
\*           transform and image pass, measurementEngine's store, appState's
\*           "viewer.measurements" and "viewer.transform" entries,
\*           MeasurementModule's subscription and overlay pass, the base
\*           controller's canvas resize, and the timers between them.
\*
\* The viewer is active, the image is loaded and both modules are enabled
\* throughout.  Transforms are in the units of Part II, measurement points
\* are whole pixels, measurement values are in hundredths, times are in
\* milliseconds.
\* ==========================================================================
\* Measurement objects created over a run.
MaxObjects == 2
\* Measurement points lie on a path of steps 3k and 4k pixels, k = 1 .. MaxSegments.
MaxSegments == 2
\* Point lists handed to the engine have 1 .. MaxPoints points.
MaxPoints == 3
\* Timers pending when a user event arrives.
MaxPendingTimers == 2
\* User events (transform changes, store changes, window resizes) over a run.
MaxUserEvents == 4

\* Calls of the engine over a run of the store alone.
MaxCalls == 3

\* renderMeasurements: now - this._lastRenderTime < 50
RenderWindow == 50
\* renderMeasurements: setTimeout(() => { this._isRendering = false }, 10)
RenderingResetDelay == 10
\* MeasurementModule.onCanvasResize: setTimeout(..., 100)
ResizeRenderDelay == 100
\* BaseViewerController.handleResize: setTimeout(..., 100)
ResizeDebounce == 100
\* DicomAnalyzerApp.handleWindowResize: setTimeout(..., 250)
AppResizeDebounce == 250
\* this.measurements.get(id) of an id that is not a key
NoObject == 0
\* appState.state.viewer.selectedMeasurement: null
NoSelection == 0
\* The calls the JavaScript engine's stack holds before it throws a RangeError.
MaxStack == 5
\* InteractionModule.broadcastInteraction: setTimeout(..., 1)
InteractionDelay == 1

\* The modules registered with the BaseViewerController.
Modules == {"imageDisplay", "interaction", "measurement", "controls"}
\* MeasurementModule's tools.
Tools == {"distance", "angle", "area"}
\* zoomAtPoint: Math.max(0.1, Math.min(5, ...)), in percent
MinScale == 10
MaxScale == 500
\* handleWheel: e.deltaY > 0 ? 0.9 : 1.1, in percent
WheelOut == 90
WheelIn == 110
\* zoomIn and zoomOut: zoom(1.2) and zoom(0.8), in percent
ZoomFactors == {120, 80}

\* container.getBoundingClientRect() at a resize: the container on display,
\* and the container while it is hidden.
ContainerRects ==
  { [width |-> CanvasWidth, height |-> CanvasHeight], [width |-> 0, height |-> 0] }

\* Where the wheel is turned: the canvas origin and the middle of the canvas.
WheelPositions ==
  { [x |-> 0, y |-> 0], [x |-> CanvasWidth \div 2, y |-> CanvasHeight \div 2] }

\* The i-th point of the path: the corners (0,0), (3k,4k), (3k,0), (0,4k) in turn.
Path(k) ==
  [ i \in 1..MaxPoints |->
      [ imageX |-> IF (i - 1) % 4 \in {1, 2} THEN 3 * k ELSE 0,
        imageY |-> IF (i - 1) % 4 \in {1, 3} THEN 4 * k ELSE 0 ] ]

\* The point lists the engine is called with, of every length.
PointLists == { SubSeq(Path(k), 1, n) : k \in 1..MaxSegments, n \in 1..MaxPoints }

\* The point lists the interaction layer produces for a distance.
PointPairs == { SubSeq(Path(k), 1, 2) : k \in 1..MaxSegments }

\* A number, as parseFloat returns it.
Number(n) == [nan |-> FALSE, n |-> n]
NaN == [nan |-> TRUE, n |-> 0]
\* let realDistance = null
Null == [null |-> TRUE]

\* parseFloat on the entries setPixelSpacing is given.
parseFloat(text) ==
  IF text = "1" THEN Number(1)
  ELSE IF text = "2" THEN Number(2)
  ELSE IF text = "0" THEN Number(0)
  ELSE NaN

\* What setPixelSpacing is called with: a string, split at its backslashes,
\* an array, or anything else.
PixelSpacingInputs ==
  { [kind |-> kind, parts |-> parts] :
      kind \in {"string", "array"},
      parts \in { << "1", "1" >>, << "0", "0" >>, << "abc", "abc" >>, << "1" >> } }
    \cup { [kind |-> "other", parts |-> << >>] }

\* The DICOM PixelSpacing values of well-formed images.
PixelSpacings == { [kind |-> "string", parts |-> << "1", "1" >>] }

\* What setPixelSpacing is called with before the calculations are looked at:
\* equal and unequal spacings, zero and text that is no number.
CalculatorSpacings ==
  { [kind |-> kind, parts |-> parts] :
      kind \in {"string", "array"},
      parts \in { << "1", "1" >>, << "2", "2" >>, << "1", "2" >>, << "0", "0" >>,
                  << "abc", "abc" >> } }

\* Differences of coordinates range over 0 .. MaxDelta pixels.
MaxDelta == 4
\* Squares have sides of 1 .. MaxSide pixels.
MaxSide == 10

ImagePoint(x, y) == [imageX |-> x, imageY |-> y]

\* The point pairs calculateDistance is given: from the origin and back to it.
Segments ==
  { << ImagePoint(0, 0), ImagePoint(x, y) >> : x \in 0..MaxDelta, y \in 0..MaxDelta }
    \cup { << ImagePoint(x, y), ImagePoint(0, 0) >> : x \in 0..MaxDelta, y \in 0..MaxDelta }

\* The point lists calculateArea is given: squares in both orientations,
\* right triangles, and outlines that cross themselves.
Polygons ==
  { << ImagePoint(0, 0), ImagePoint(s, 0), ImagePoint(s, s), ImagePoint(0, s) >> :
      s \in 1..MaxSide }
    \cup { << ImagePoint(0, 0), ImagePoint(0, s), ImagePoint(s, s), ImagePoint(s, 0) >> :
             s \in 1..MaxSide }
    \cup { << ImagePoint(0, 0), ImagePoint(a, 0), ImagePoint(0, b) >> :
             a \in 1..MaxDelta, b \in 1..MaxDelta }
    \cup { << ImagePoint(0, 0), ImagePoint(s, s), ImagePoint(s, 0), ImagePoint(0, s) >> :
             s \in 1..MaxDelta }

\* The point lists calculateAngle is given: a right angle at the origin, and
\* the same with p1, with p2 and with both on the vertex.
AngleTriples ==
  { << p1, ImagePoint(0, 0), p2 >> :
      p1 \in {ImagePoint(0, 0), ImagePoint(1, 0)},
      p2 \in {ImagePoint(0, 0), ImagePoint(0, 1)} }

\* A pair, or a delimited string, of two positive numbers.
WellFormed(input) ==
  /\ input.kind \in {"string", "array"}
  /\ Len(input.parts) = 2
  /\ \A i \in 1..2 : ~parseFloat(input.parts[i]).nan /\ parseFloat(input.parts[i]).n > 0

\* What setCalibration is called with: a calibration without pixelSpacing, or
\* with the PixelSpacing of a well-formed image.
Calibrations ==
  { [hasPixelSpacing |-> FALSE, pixelSpacing |-> [kind |-> "other", parts |-> << >>]] }
    \cup { [hasPixelSpacing |-> TRUE, pixelSpacing |-> input] : input \in PixelSpacings }

\* What importMeasurements is called with: text that does not parse, or the
\* measurements of an export file.
Imports ==
  { [parses |-> FALSE, measurements |-> << >>] }
    \cup { [ parses |-> TRUE,
             measurements |-> << [ id |-> 1, type |-> "distance", points |-> points,
                                   value |-> 500, unit |-> unit ] >> ] :
             points \in { SubSeq(Path(1), 1, 2), SubSeq(Path(1), 2, 2) },
             unit \in {"px", "mm"} }

\* The arguments applyTransform is called with: setZoom's { scale } and
\* handlePanning's { translateX, translateY }.
NewTransforms ==
  { [scale |-> s] : s \in {100, 200} }
    \cup { [translateX |-> t, translateY |-> t] : t \in Translations }

VARIABLES
  transform,          \* ImageDisplayModule.transform
  appTransform,       \* appState.state.viewer.transform
  imageLayer,         \* the image canvas: its size, drawn or blank, the transform drawn under
  overlayLayer,       \* the measurement canvas: the same, and the measurements drawn
  engine,             \* measurementEngine: the Map's objects in order, measurementId, pixelSpacing
  heap,               \* the measurement objects ever created, in creation order
  appMeasurements,    \* appState.state.viewer.measurements: an array of object references
  measurementModule,  \* MeasurementModule: state.measurements, _isRendering, time since _lastRenderTime,
                      \* state.mode, state.currentMeasurement
  isBroadcasting,     \* BaseViewerController._isBroadcasting
  timers,             \* pending setTimeout callbacks, oldest first
  thrown,             \* what the last call of the engine threw
  appSelectedMeasurement,  \* appState.state.viewer.selectedMeasurement
  baseController,     \* BaseViewerController: state.isActive, each module's state.isEnabled,
                      \* the interaction events its broadcasts have delivered
  userEvents          \* the user events so far

renderVars ==
  << transform, appTransform, imageLayer, overlayLayer, engine, heap,
     appMeasurements, measurementModule, isBroadcasting, timers, thrown,
     appSelectedMeasurement, baseController,
     userEvents >>

Timer(kind, delay, value) == [kind |-> kind, delay |-> delay, value |-> value]

\* The viewer activated and the image loaded: the image drawn under the reset
\* transform, the overlay not drawn yet, the store empty, no timer pending.
RenderFresh ==
  /\ transform = IdentityTransform
  /\ appTransform = IdentityTransform
  /\ imageLayer = [ drawn |-> TRUE, transform |-> IdentityTransform,
                    width |-> CanvasWidth, height |-> CanvasHeight ]
  /\ overlayLayer = [drawn |-> FALSE, transform |-> IdentityTransform,
                     measurements |-> << >>]
  /\ engine = [measurements |-> << >>, measurementId |-> 0, pixelSpacing |-> << >>]
  /\ heap = << >>
  /\ appMeasurements = << >>
  /\ measurementModule = [measurements |-> << >>, isRendering |-> FALSE,
                          sinceRender |-> RenderWindow,
                          mode |-> "null", currentMeasurement |-> "null"]
  /\ isBroadcasting = FALSE
  /\ timers = << >>
  /\ thrown = "none"
  /\ appSelectedMeasurement = NoSelection
  /\ baseController = [ isActive |-> TRUE, isEnabled |-> [name \in Modules |-> TRUE],
                        delivered |-> << >> ]
  /\ userEvents = 0

\* Object.assign(target, source)
ObjectAssign(target, source) ==
  [ k \in DOMAIN target |-> IF k \in DOMAIN source THEN source[k] ELSE target[k] ]

\* appState.deepEquals on two arrays of measurement references, read in the
\* heap objects: the same object, or two objects with equal fields.
deepEquals(a, b, objects) ==
  /\ Len(a) = Len(b)
  /\ \A i \in 1..Len(a) : a[i] = b[i] \/ objects[a[i]] = objects[b[i]]

\* realDistance || pixelDistance: the calibrated value unless it is NaN or 0.
OrElse(real, pixel) == IF real.nan \/ real.n = 0 THEN pixel ELSE real.n

\* measurementEngine.calculateDistance: value and unit, in hundredths.
\* calculateDistance with the row and the column spacing exchanged
engineCalculateDistanceSwapsSpacing(points, pixelSpacing) ==
  LET dx == points[2].imageX - points[1].imageX
      dy == points[2].imageY - points[1].imageY
      pixelDistance == ISqrt(10000 * (dx * dx + dy * dy))
  IN IF pixelSpacing = << >>
     THEN [ pixelDistance |-> pixelDistance, realDistance |-> Null,
            value |-> pixelDistance, unit |-> "px" ]
     ELSE LET realDistance ==
                IF pixelSpacing[1].nan \/ pixelSpacing[2].nan THEN NaN
                ELSE LET realDx == dx * pixelSpacing[1].n
                         realDy == dy * pixelSpacing[2].n
                     IN Number(ISqrt(10000 * (realDx * realDx + realDy * realDy)))
          IN [ pixelDistance |-> pixelDistance, realDistance |-> realDistance,
               value |-> OrElse(realDistance, pixelDistance), unit |-> "mm" ]

engineCalculateDistance(points, pixelSpacing) ==
  LET dx == points[2].imageX - points[1].imageX
      dy == points[2].imageY - points[1].imageY
      pixelDistance == ISqrt(10000 * (dx * dx + dy * dy))
  IN IF pixelSpacing = << >>
     THEN [ pixelDistance |-> pixelDistance, realDistance |-> Null,
            value |-> pixelDistance, unit |-> "px" ]
     ELSE LET realDistance ==
                IF pixelSpacing[1].nan \/ pixelSpacing[2].nan THEN NaN
                ELSE LET realDx == dx * pixelSpacing[2].n
                         realDy == dy * pixelSpacing[1].n
                     IN Number(ISqrt(10000 * (realDx * realDx + realDy * realDy)))
          IN [ pixelDistance |-> pixelDistance, realDistance |-> realDistance,
               value |-> OrElse(realDistance, pixelDistance), unit |-> "mm" ]

\* measurementEngine.calculateAngle: value and unit, in hundredths.
engineCalculateAngle(points) ==
  [value |-> calculateAngle(points[1], points[2], points[3]), unit |-> "deg"]

\* measurementEngine.calculateArea: value and unit, in hundredths.
\* calculateArea without Math.abs
engineCalculateAreaSigned(points, pixelSpacing) ==
  LET pixelArea == (100 * ShoelaceSum(points, 1)) \div 2
  IN IF pixelSpacing = << >>
     THEN [ pixelArea |-> pixelArea, realArea |-> Null,
            value |-> pixelArea, unit |-> "px2" ]
     ELSE LET realArea ==
                IF pixelSpacing[1].nan \/ pixelSpacing[2].nan THEN NaN
                ELSE Number(pixelArea * pixelSpacing[1].n * pixelSpacing[2].n)
          IN [ pixelArea |-> pixelArea, realArea |-> realArea,
               value |-> OrElse(realArea, pixelArea), unit |-> "mm2" ]

engineCalculateArea(points, pixelSpacing) ==
  LET pixelArea == (100 * Abs(ShoelaceSum(points, 1))) \div 2
  IN IF pixelSpacing = << >>
     THEN [ pixelArea |-> pixelArea, realArea |-> Null,
            value |-> pixelArea, unit |-> "px2" ]
     ELSE LET realArea ==
                IF pixelSpacing[1].nan \/ pixelSpacing[2].nan THEN NaN
                ELSE Number(pixelArea * pixelSpacing[1].n * pixelSpacing[2].n)
          IN [ pixelArea |-> pixelArea, realArea |-> realArea,
               value |-> OrElse(realArea, pixelArea), unit |-> "mm2" ]

\* The calculation reads a point the list does not have (a TypeError).
CalculateThrows(type, points) ==
  \/ type = "distance" /\ Len(points) < 2
  \/ type = "angle" /\ Len(points) < 3

\* The calculation of the measurement's type.
Calculate(type, points, pixelSpacing) ==
  IF type = "distance" THEN engineCalculateDistance(points, pixelSpacing)
  ELSE IF type = "angle" THEN engineCalculateAngle(points)
  ELSE engineCalculateArea(points, pixelSpacing)

MeasurementObject(id, type, points, pixelSpacing) ==
  LET calculated == Calculate(type, points, pixelSpacing)
  IN [ id |-> id, type |-> type, points |-> points,
       value |-> calculated.value, unit |-> calculated.unit ]

\* The objects an array of references leads to.
Objects(refs, objects) == [ i \in 1..Len(refs) |-> objects[refs[i]] ]

Without(refs, ref) == SelectSeq(refs, LAMBDA r : r # ref)

\* this.measurements.get(id): the stored object with the id, NoObject if none.
MapGet(id) ==
  IF \E i \in 1..Len(engine.measurements) : heap[engine.measurements[i]].id = id
  THEN engine.measurements[
         CHOOSE i \in 1..Len(engine.measurements) : heap[engine.measurements[i]].id = id]
  ELSE NoObject

\* ImageDisplayModule.render: the image pass, under the transform tr.
render(tr) == imageLayer' = [imageLayer EXCEPT !.drawn = TRUE, !.transform = tr]

\* MeasurementModule.renderMeasurements, called with the module in state mm:
\* the module, the overlay and the timers it leaves.
renderMeasurements(mm, tm) ==
  IF mm.isRendering \/ mm.sinceRender < RenderWindow
  THEN [module |-> mm, overlay |-> overlayLayer, timers |-> tm]
  ELSE [ module |-> [mm EXCEPT !.isRendering = TRUE, !.sinceRender = 0],
         overlay |-> [ drawn |-> TRUE, transform |-> transform,
                       measurements |-> Objects(mm.measurements, heap) ],
         timers |-> Append(tm, Timer("renderingDone", RenderingResetDelay, << >>)) ]

\* measurementEngine.updateAppState and appState.setState("viewer.measurements"):
\* refs is the store's array of references after the change, objects the heap.
updateAppState(refs, objects) ==
  IF deepEquals(appMeasurements, refs, objects)
  THEN UNCHANGED << appMeasurements, timers >>
  ELSE /\ appMeasurements' = refs
       /\ timers' = Append(timers, Timer("notify", 0, refs))

\* --------------------------------------------------------- transform changes
\* ImageDisplayModule.applyTransform
applyTransform(newTransform) ==
  /\ transform' = ObjectAssign(transform, newTransform)
  /\ render(transform')
  /\ appTransform' = transform'
  /\ UNCHANGED << overlayLayer, engine, heap, appMeasurements, measurementModule,
                  isBroadcasting, timers >>
  /\ UNCHANGED << thrown, appSelectedMeasurement, baseController >>

\* ImageDisplayModule.resetTransform
resetTransform ==
  /\ transform' = IdentityTransform
  /\ render(transform')
  /\ UNCHANGED << appTransform, overlayLayer, engine, heap, appMeasurements,
                  measurementModule, isBroadcasting, timers >>
  /\ UNCHANGED << thrown, appSelectedMeasurement, baseController >>

\* ImageDisplayModule.fitToCanvas
fitToCanvas ==
  applyTransform([ scale |-> FitScale(imageLayer.width, imageLayer.height),
                   translateX |-> 0, translateY |-> 0, rotation |-> 0 ])

\* InteractionModule.zoomAtPoint, in whole pixels and whole percent. At scale
\* 0 the translations it computes are not finite; the model has none and
\* leaves the zoom out there.
zoomAtPoint(factor, pointX, pointY) ==
  LET oldScale == transform.scale
      newScale == Max(MinScale, Min(MaxScale, (oldScale * factor) \div 100))
      centerX == imageLayer.width \div 2
      centerY == imageLayer.height \div 2
      imageX == (100 * (pointX - centerX)) \div oldScale
                  - transform.translateX + ImageWidth \div 2
      imageY == (100 * (pointY - centerY)) \div oldScale
                  - transform.translateY + ImageHeight \div 2
  IN /\ oldScale # 0
     /\ IF newScale = oldScale
        THEN UNCHANGED << transform, appTransform, imageLayer, overlayLayer,
                          engine, heap, appMeasurements, measurementModule,
                          isBroadcasting, timers, thrown,
                          appSelectedMeasurement, baseController >>
        ELSE applyTransform(
               [ scale |-> newScale,
                 translateX |-> (100 * (pointX - centerX)) \div newScale
                                  - imageX + ImageWidth \div 2,
                 translateY |-> (100 * (pointY - centerY)) \div newScale
                                  - imageY + ImageHeight \div 2 ])

\* InteractionModule.zoom: zoomIn, zoomOut and the + and - keys
zoom(factor) ==
  zoomAtPoint(factor, imageLayer.width \div 2, imageLayer.height \div 2)

\* InteractionModule.handleWheel, with the pointer at the canvas position
handleWheel(deltaY, canvas) ==
  zoomAtPoint(IF deltaY > 0 THEN WheelOut ELSE WheelIn, canvas.x, canvas.y)

\* -------------------------------------------------------------- store changes
\* throw new Error(...): the call ends there, nothing else changes.
Throw(error) ==
  /\ thrown' = error
  /\ UNCHANGED << appSelectedMeasurement, baseController >>
  /\ UNCHANGED << transform, appTransform, imageLayer, overlayLayer, engine, heap,
                  appMeasurements, measurementModule, isBroadcasting, timers >>

\* this.measurements.set(measurement.id, measurement) for each of the new
\* objects, whose ids are above every key of the Map, then updateAppState.
Insert(objects) ==
  /\ heap' = heap \o objects
  /\ engine' = [engine EXCEPT
                  !.measurementId = @ + Len(objects),
                  !.measurements = @ \o [ i \in 1..Len(objects) |-> Len(heap) + i ]]
  /\ updateAppState(engine'.measurements, heap')
  /\ thrown' = "none"
  /\ UNCHANGED << appSelectedMeasurement, baseController >>
  /\ UNCHANGED << transform, appTransform, imageLayer, overlayLayer,
                  measurementModule, isBroadcasting >>

\* measurementEngine.createDistanceMeasurement without its point count test
createDistanceMeasurementUnchecked(points) ==
  IF Len(points) < 2
  THEN Throw("TypeError")
  ELSE Insert(<< MeasurementObject(engine.measurementId + 1, "distance", points,
                                   engine.pixelSpacing) >>)

\* measurementEngine.createDistanceMeasurement
createDistanceMeasurement(points) ==
  IF Len(points) # 2
  THEN Throw("point count")
  ELSE Insert(<< MeasurementObject(engine.measurementId + 1, "distance", points,
                                   engine.pixelSpacing) >>)

\* measurementEngine.createAngleMeasurement
createAngleMeasurement(points) ==
  IF Len(points) # 3
  THEN Throw("point count")
  ELSE Insert(<< MeasurementObject(engine.measurementId + 1, "angle", points,
                                   engine.pixelSpacing) >>)

\* measurementEngine.createAreaMeasurement
createAreaMeasurement(points) ==
  IF Len(points) < 3
  THEN Throw("point count")
  ELSE Insert(<< MeasurementObject(engine.measurementId + 1, "area", points,
                                   engine.pixelSpacing) >>)

\* updateMeasurement on the stored object ref: the points are assigned before
\* the value is recalculated, and the recalculation can throw.
UpdateStored(ref, newPoints) ==
  IF CalculateThrows(heap[ref].type, newPoints)
  THEN /\ heap' = [heap EXCEPT ![ref].points = newPoints]
       /\ thrown' = "TypeError"
       /\ UNCHANGED << appSelectedMeasurement, baseController >>
       /\ UNCHANGED << transform, appTransform, imageLayer, overlayLayer, engine,
                       appMeasurements, measurementModule, isBroadcasting, timers >>
  ELSE /\ heap' = [heap EXCEPT ![ref] =
                     MeasurementObject(@.id, @.type, newPoints, engine.pixelSpacing)]
       /\ updateAppState(engine.measurements, heap')
       /\ thrown' = "none"
       /\ UNCHANGED << appSelectedMeasurement, baseController >>
       /\ UNCHANGED << transform, appTransform, imageLayer, overlayLayer, engine,
                       measurementModule, isBroadcasting >>

\* measurementEngine.updateMeasurement that stores a new measurement when the
\* id is unknown
updateMeasurementUpserts(id, newPoints) ==
  IF MapGet(id) = NoObject
  THEN Insert(<< MeasurementObject(engine.measurementId + 1, "area", newPoints,
                                   engine.pixelSpacing) >>)
  ELSE UpdateStored(MapGet(id), newPoints)

\* measurementEngine.updateMeasurement that passes over an unknown id
updateMeasurementIgnoresUnknown(id, newPoints) ==
  IF MapGet(id) = NoObject
  THEN /\ thrown' = "none"
       /\ UNCHANGED << appSelectedMeasurement, baseController >>
       /\ UNCHANGED << transform, appTransform, imageLayer, overlayLayer, engine,
                       heap, appMeasurements, measurementModule, isBroadcasting,
                       timers >>
  ELSE UpdateStored(MapGet(id), newPoints)

\* measurementEngine.updateMeasurement
updateMeasurement(id, newPoints) ==
  IF MapGet(id) = NoObject
  THEN Throw("not found")
  ELSE UpdateStored(MapGet(id), newPoints)

\* measurementEngine.deleteMeasurement that throws on an unknown id
deleteMeasurementThrows(id) ==
  IF MapGet(id) # NoObject
  THEN /\ engine' = [engine EXCEPT !.measurements = Without(@, MapGet(id))]
       /\ updateAppState(engine'.measurements, heap)
       /\ thrown' = "none"
       /\ UNCHANGED << appSelectedMeasurement, baseController >>
       /\ UNCHANGED << transform, appTransform, imageLayer, overlayLayer, heap,
                       measurementModule, isBroadcasting >>
  ELSE Throw("not found")

\* MeasurementModule.deleteMeasurement, confirmed: measurementEngine.deleteMeasurement
\* deleteMeasurement that clears the selection as well
deleteMeasurementDeselects(id) ==
  /\ IF MapGet(id) # NoObject
     THEN /\ engine' = [engine EXCEPT !.measurements = Without(@, MapGet(id))]
          /\ updateAppState(engine'.measurements, heap)
     ELSE UNCHANGED << engine, appMeasurements, timers >>
  /\ thrown' = "none"
  /\ appSelectedMeasurement' = NoSelection
  /\ UNCHANGED baseController
  /\ UNCHANGED << transform, appTransform, imageLayer, overlayLayer, heap,
                  measurementModule, isBroadcasting >>

deleteMeasurement(id) ==
  /\ IF MapGet(id) # NoObject
     THEN /\ engine' = [engine EXCEPT !.measurements = Without(@, MapGet(id))]
          /\ updateAppState(engine'.measurements, heap)
     ELSE UNCHANGED << engine, appMeasurements, timers >>
  /\ thrown' = "none"
  /\ UNCHANGED << appSelectedMeasurement, baseController >>
  /\ UNCHANGED << transform, appTransform, imageLayer, overlayLayer, heap,
                  measurementModule, isBroadcasting >>

\* MeasurementModule.clearAllMeasurements, confirmed:
\* measurementEngine.clearAllMeasurements
engineClearAllMeasurements ==
  /\ engine' = [engine EXCEPT !.measurements = << >>]
  /\ updateAppState(engine'.measurements, heap)
  /\ thrown' = "none"
  /\ UNCHANGED << appSelectedMeasurement, baseController >>
  /\ UNCHANGED << transform, appTransform, imageLayer, overlayLayer, heap,
                  measurementModule, isBroadcasting >>

\* The place in the Map of the first measurement whose recalculation throws,
\* one past the last place if none does.
FirstThrowing(objects, refs) ==
  IF \E i \in 1..Len(refs) : CalculateThrows(objects[refs[i]].type, objects[refs[i]].points)
  THEN CHOOSE i \in 1..Len(refs) :
         /\ CalculateThrows(objects[refs[i]].type, objects[refs[i]].points)
         /\ \A j \in 1..(i - 1) :
               ~CalculateThrows(objects[refs[j]].type, objects[refs[j]].points)
  ELSE Len(refs) + 1

\* recalculateAllMeasurements that adds the calculated value to the stored one
RecalculatedAccumulates(objects, refs, pixelSpacing) ==
  [ ref \in DOMAIN objects |->
      IF \E i \in 1..(FirstThrowing(objects, refs) - 1) : refs[i] = ref
      THEN [ MeasurementObject(objects[ref].id, objects[ref].type, objects[ref].points,
                               pixelSpacing)
               EXCEPT !.value = @ + objects[ref].value ]
      ELSE objects[ref] ]

\* recalculateAllMeasurements that keeps of each measurement only the points
\* its calculation reads
RecalculatedTrimsPoints(objects, refs, pixelSpacing) ==
  [ ref \in DOMAIN objects |->
      IF \E i \in 1..(FirstThrowing(objects, refs) - 1) : refs[i] = ref
      THEN MeasurementObject(objects[ref].id, objects[ref].type,
             IF objects[ref].type = "distance" THEN SubSeq(objects[ref].points, 1, 2)
             ELSE objects[ref].points,
             pixelSpacing)
      ELSE objects[ref] ]

\* measurementEngine.recalculateAllMeasurements under the spacing given: the
\* heap its loop leaves.
Recalculated(objects, refs, pixelSpacing) ==
  [ ref \in DOMAIN objects |->
      IF \E i \in 1..(FirstThrowing(objects, refs) - 1) : refs[i] = ref
      THEN MeasurementObject(objects[ref].id, objects[ref].type, objects[ref].points,
                             pixelSpacing)
      ELSE objects[ref] ]

\* recalculateAllMeasurements, called with the spacing already assigned
RecalculateAll(pixelSpacing) ==
  /\ heap' = Recalculated(heap, engine.measurements, pixelSpacing)
  /\ IF FirstThrowing(heap, engine.measurements) <= Len(engine.measurements)
     THEN /\ thrown' = "TypeError"
          /\ UNCHANGED << appSelectedMeasurement, baseController >>
          /\ UNCHANGED << appMeasurements, timers >>
     ELSE /\ thrown' = "none"
          /\ UNCHANGED << appSelectedMeasurement, baseController >>
          /\ updateAppState(engine.measurements, heap')

\* measurementEngine.recalculateAllMeasurements
recalculateAllMeasurements ==
  /\ RecalculateAll(engine.pixelSpacing)
  /\ UNCHANGED << transform, appTransform, imageLayer, overlayLayer, engine,
                  measurementModule, isBroadcasting >>

\* The spacing setPixelSpacing assigns for an input, << >> if it assigns none.
Assigned(input) ==
  LET values == [ i \in 1..Len(input.parts) |-> parseFloat(input.parts[i]) ]
  IN IF input.kind = "string"
     THEN IF Len(values) = 2 /\ \A i \in 1..2 : ~values[i].nan
          THEN values ELSE << >>
     ELSE IF input.kind = "array" /\ Len(input.parts) = 2
     THEN values
     ELSE << >>

\* measurementEngine.setPixelSpacing
setPixelSpacing(input) ==
  LET pixelSpacing ==
        IF Assigned(input) # << >> THEN Assigned(input) ELSE engine.pixelSpacing
  IN /\ engine' = [engine EXCEPT !.pixelSpacing = pixelSpacing]
     /\ IF Len(engine.measurements) > 0
        THEN RecalculateAll(pixelSpacing)
        ELSE /\ thrown' = "none"
             /\ UNCHANGED << appSelectedMeasurement, baseController >>
             /\ UNCHANGED << heap, appMeasurements, timers >>
     /\ UNCHANGED << transform, appTransform, imageLayer, overlayLayer,
                     measurementModule, isBroadcasting >>

\* measurementEngine.setCalibration: setPixelSpacing with the calibration's
\* spacing, if it has one, then recalculateAllMeasurements; what the first
\* throws ends the call.
setCalibration(calibration) ==
  LET refs == engine.measurements
      pixelSpacing ==
        IF calibration.hasPixelSpacing /\ Assigned(calibration.pixelSpacing) # << >>
        THEN Assigned(calibration.pixelSpacing) ELSE engine.pixelSpacing
      throws == FirstThrowing(heap, refs) <= Len(refs)
      first == IF calibration.hasPixelSpacing /\ Len(refs) > 0
               THEN Recalculated(heap, refs, pixelSpacing) ELSE heap
  IN /\ engine' = [engine EXCEPT !.pixelSpacing = pixelSpacing]
     /\ heap' = Recalculated(first, refs, pixelSpacing)
     /\ IF throws
        THEN /\ thrown' = "TypeError"
             /\ UNCHANGED << appSelectedMeasurement, baseController >>
             /\ UNCHANGED << appMeasurements, timers >>
        ELSE /\ thrown' = "none"
             /\ UNCHANGED << appSelectedMeasurement, baseController >>
             /\ updateAppState(refs, heap')
     /\ UNCHANGED << transform, appTransform, imageLayer, overlayLayer,
                     measurementModule, isBroadcasting >>

\* measurementEngine.importMeasurements: every imported measurement gets the
\* next id and is stored as it came.
importMeasurements(data) ==
  IF ~data.parses
  THEN Throw("import failed")
  ELSE Insert([ i \in 1..Len(data.measurements) |->
                  [data.measurements[i] EXCEPT !.id = engine.measurementId + i] ])

\* measurementEngine.duplicateMeasurement
duplicateMeasurement(id) ==
  IF MapGet(id) = NoObject
  THEN Throw("not found")
  ELSE Insert(<< [heap[MapGet(id)] EXCEPT !.id = engine.measurementId + 1] >>)

\* measurementEngine.cleanup
cleanup ==
  /\ engine' = [measurements |-> << >>, measurementId |-> 0, pixelSpacing |-> << >>]
  /\ updateAppState(<< >>, heap)
  /\ thrown' = "none"
  /\ UNCHANGED << appSelectedMeasurement, baseController >>
  /\ UNCHANGED << transform, appTransform, imageLayer, overlayLayer, heap,
                  measurementModule, isBroadcasting >>

\* ------------------------------------------------------------------- resize
\* BaseViewerController.handleResize, called with the timers tm pending: the
\* debounce timer is restarted.
handleResize(tm) ==
  Append(SelectSeq(tm, LAMBDA t : t.kind # "updateCanvasSize"),
         Timer("updateCanvasSize", ResizeDebounce, << >>))

\* DicomAnalyzerApp.handleWindowResize, called with the timers tm pending: the
\* application's debounce timer is restarted.
handleWindowResize(tm) ==
  Append(SelectSeq(tm, LAMBDA t : t.kind # "windowResize"),
         Timer("windowResize", AppResizeDebounce, << >>))

\* The window's resize event, with its two listeners: DicomAnalyzerApp's and
\* BaseViewerController's.
WindowResize ==
  /\ timers' = handleResize(handleWindowResize(timers))
  /\ UNCHANGED << transform, appTransform, imageLayer, overlayLayer, engine, heap,
                  appMeasurements, measurementModule, isBroadcasting >>
  /\ UNCHANGED << thrown, appSelectedMeasurement, baseController >>

\* -------------------------------------------------------------- calculations
\* measurementEngine.calculateDistance(points), under the engine's spacing
calculateDistanceCall(points) ==
  /\ computed' = [ op |-> "calculateDistance", points |-> points,
                   pixelSpacing |-> engine.pixelSpacing,
                   result |-> engineCalculateDistance(points, engine.pixelSpacing) ]
  /\ UNCHANGED << transformIn, pointIn >>

\* measurementEngine.calculateArea(points), under the engine's spacing
calculateAreaCall(points) ==
  /\ computed' = [ op |-> "calculateArea", points |-> points,
                   pixelSpacing |-> engine.pixelSpacing,
                   result |-> engineCalculateArea(points, engine.pixelSpacing) ]
  /\ UNCHANGED << transformIn, pointIn >>

\* measurementEngine.calculateAngle(points)
calculateAngleCall(points) ==
  /\ computed' = [ op |-> "calculateAngle", points |-> points,
                   result |-> engineCalculateAngle(points) ]
  /\ UNCHANGED << transformIn, pointIn >>

\* --------------------------------------------------------- measurement mode
\* MeasurementModule.setMeasurementMode and cancelCurrentMeasurement, each
\* entered as the depth-th call on the stack: the module as the call leaves
\* it, what it threw, and whether it came to call renderMeasurements.
RECURSIVE setMeasurementModeFrom(_, _, _)
RECURSIVE cancelCurrentMeasurementFrom(_, _)
setMeasurementModeFrom(mm, mode, depth) ==
  IF depth > MaxStack
  THEN [module |-> mm, thrown |-> "RangeError", rendered |-> FALSE]
  ELSE LET cancelled == cancelCurrentMeasurementFrom(mm, depth + 1)
       IN IF cancelled.thrown # "none" THEN cancelled
          ELSE [cancelled EXCEPT !.module.mode = mode]

cancelCurrentMeasurementFrom(mm, depth) ==
  IF depth > MaxStack
  THEN [module |-> mm, thrown |-> "RangeError", rendered |-> FALSE]
  ELSE LET set == setMeasurementModeFrom([mm EXCEPT !.currentMeasurement = "null"],
                                         "null", depth + 1)
       IN IF set.thrown # "none" THEN set
          ELSE [set EXCEPT !.rendered = TRUE]

\* The call returns or throws: the module, the overlay and the timers after it.
ModuleCall(outcome) ==
  LET rendering == IF outcome.rendered
                   THEN renderMeasurements(outcome.module, timers)
                   ELSE [module |-> outcome.module, overlay |-> overlayLayer,
                         timers |-> timers]
  IN /\ measurementModule' = rendering.module
     /\ overlayLayer' = rendering.overlay
     /\ timers' = rendering.timers
     /\ thrown' = outcome.thrown
     /\ UNCHANGED << transform, appTransform, imageLayer, engine, heap,
                     appMeasurements, isBroadcasting, appSelectedMeasurement,
                     baseController >>

\* The tool buttons: MeasurementModule.setMeasurementMode(mode)
moduleSetMeasurementMode(mode) ==
  ModuleCall(setMeasurementModeFrom(measurementModule, mode, 1))

\* ModularViewerController.cancelCurrentAction:
\* MeasurementModule.cancelCurrentMeasurement()
moduleCancelCurrentMeasurement ==
  ModuleCall(cancelCurrentMeasurementFrom(measurementModule, 1))

\* ----------------------------------------------------------------- appState
\* appState.setState("viewer.selectedMeasurement", value): no subscriber
\* listens to the path.
selectMeasurement(value) ==
  /\ appSelectedMeasurement' = value
  /\ UNCHANGED baseController
  /\ UNCHANGED << transform, appTransform, imageLayer, overlayLayer, engine, heap,
                  appMeasurements, measurementModule, isBroadcasting, timers,
                  thrown >>

\* appState.dispatch({ type: "DELETE_MEASUREMENT", payload: { id } })
dispatchDeleteMeasurement(id) ==
  /\ timers' = Append(timers, Timer("action", 0, << id >>))
  /\ UNCHANGED << transform, appTransform, imageLayer, overlayLayer, engine, heap,
                  appMeasurements, measurementModule, isBroadcasting, thrown,
                  appSelectedMeasurement, baseController >>

\* ------------------------------------------------------------------- timers
\* The timer that fires next: the oldest of those whose delay has run out.
Due ==
  IF \E i \in 1..Len(timers) : timers[i].delay = 0
  THEN CHOOSE i \in 1..Len(timers) :
         /\ timers[i].delay = 0
         /\ \A j \in 1..(i - 1) : timers[j].delay # 0
  ELSE 0

Fires(kind) == Due # 0 /\ timers[Due].kind = kind

Remaining == [ i \in 1..(Len(timers) - 1) |->
                 IF i < Due THEN timers[i] ELSE timers[i + 1] ]

\* appState.notifySubscribers' timer: MeasurementModule's subscriber to
\* "viewer.measurements".
NotifyMeasurements ==
  /\ Fires("notify")
  /\ LET mm == [measurementModule EXCEPT !.measurements = timers[Due].value]
         rendered == renderMeasurements(mm, Remaining)
     IN /\ measurementModule' = rendered.module
        /\ overlayLayer' = rendered.overlay
        /\ timers' = rendered.timers
  /\ UNCHANGED << transform, appTransform, imageLayer, engine, heap,
                  appMeasurements, isBroadcasting >>
  /\ UNCHANGED << thrown, appSelectedMeasurement, baseController >>

\* appState.dispatch's timer: _handleAction, case "DELETE_MEASUREMENT"
handleDeleteMeasurement ==
  /\ Fires("action")
  /\ LET id == timers[Due].value[1]
         filteredMeasurements ==
           SelectSeq(appMeasurements, LAMBDA ref : heap[ref].id # id)
     IN IF deepEquals(appMeasurements, filteredMeasurements, heap)
        THEN /\ timers' = Remaining
             /\ UNCHANGED appMeasurements
        ELSE /\ appMeasurements' = filteredMeasurements
             /\ timers' = Append(Remaining, Timer("notify", 0, filteredMeasurements))
  /\ UNCHANGED << transform, appTransform, imageLayer, overlayLayer, engine, heap,
                  measurementModule, isBroadcasting, thrown,
                  appSelectedMeasurement, baseController >>

\* renderMeasurements' timer
RenderingDone ==
  /\ Fires("renderingDone")
  /\ measurementModule' = [measurementModule EXCEPT !.isRendering = FALSE]
  /\ timers' = Remaining
  /\ UNCHANGED << transform, appTransform, imageLayer, overlayLayer, engine, heap,
                  appMeasurements, isBroadcasting >>
  /\ UNCHANGED << thrown, appSelectedMeasurement, baseController >>

\* handleWindowResize's timer: the viewer being the current view,
\* ModularViewerController.handleResize, which calls
\* BaseViewerController.handleResize.
ForwardResize ==
  /\ Fires("windowResize")
  /\ timers' = handleResize(Remaining)
  /\ UNCHANGED << transform, appTransform, imageLayer, overlayLayer, engine, heap,
                  appMeasurements, measurementModule, isBroadcasting >>
  /\ UNCHANGED << thrown, appSelectedMeasurement, baseController >>

\* handleResize's timer: BaseViewerController.updateCanvasSize, which blanks
\* the canvases and broadcasts onCanvasResize to ImageDisplayModule (render)
\* and MeasurementModule (a timer).
\* BaseViewerController.updateCanvasSize() with the timers tm pending: the
\* canvases take the container's size, which clears them, and onCanvasResize
\* is broadcast; ImageDisplayModule.onCanvasResize renders if enabled.
updateCanvasSizeWith(tm) ==
  /\ \E rect \in ContainerRects :
       LET renders == ~isBroadcasting /\ baseController.isEnabled["imageDisplay"]
       IN imageLayer' = [ width |-> rect.width, height |-> rect.height,
                          drawn |-> renders,
                          transform |-> IF renders THEN transform
                                        ELSE imageLayer.transform ]
  /\ IF isBroadcasting
     THEN /\ timers' = tm
          /\ UNCHANGED isBroadcasting
     ELSE /\ isBroadcasting' = TRUE
          /\ timers' = tm \o << Timer("resizeRender", ResizeRenderDelay, << >>),
                                Timer("broadcastDone", 0, << >>) >>
  /\ overlayLayer' = [overlayLayer EXCEPT !.drawn = FALSE, !.measurements = << >>]

updateCanvasSize ==
  /\ Fires("updateCanvasSize")
  /\ updateCanvasSizeWith(Remaining)
  /\ UNCHANGED << transform, appTransform, engine, heap, appMeasurements,
                  measurementModule >>
  /\ UNCHANGED << thrown, appSelectedMeasurement, baseController >>

\* MeasurementModule.onCanvasResize's timer
ResizeRender ==
  /\ Fires("resizeRender")
  /\ LET rendered == IF baseController.isEnabled["measurement"]
                     THEN renderMeasurements(measurementModule, Remaining)
                     ELSE [module |-> measurementModule, overlay |-> overlayLayer,
                           timers |-> Remaining]
     IN /\ measurementModule' = rendered.module
        /\ overlayLayer' = rendered.overlay
        /\ timers' = rendered.timers
  /\ UNCHANGED << transform, appTransform, imageLayer, engine, heap,
                  appMeasurements, isBroadcasting >>
  /\ UNCHANGED << thrown, appSelectedMeasurement, baseController >>

\* broadcastToModules' timer
BroadcastDone ==
  /\ Fires("broadcastDone")
  /\ isBroadcasting' = FALSE
  /\ timers' = Remaining
  /\ UNCHANGED << transform, appTransform, imageLayer, overlayLayer, engine, heap,
                  appMeasurements, measurementModule >>
  /\ UNCHANGED << thrown, appSelectedMeasurement, baseController >>

\* BaseViewerController.activate(): updateCanvasSize() broadcasts
\* onCanvasResize, or finds a broadcast under way, and either way leaves
\* _isBroadcasting set; broadcastToModules("onActivate") follows in the same
\* turn and reaches the modules only if the flag is clear.
activate ==
  /\ ~baseController.isActive
  /\ updateCanvasSizeWith(timers)
  /\ baseController' =
       [baseController EXCEPT !.isActive = TRUE,
                              !.isEnabled = IF isBroadcasting' THEN @
                                            ELSE [name \in Modules |-> TRUE]]
  /\ UNCHANGED << transform, appTransform, engine, heap, appMeasurements,
                  measurementModule, thrown, appSelectedMeasurement >>

\* BaseViewerController.deactivate(): broadcastToModules("onDeactivate")
\* disables every module; MeasurementModule.onDeactivate goes on to
\* cancelCurrentMeasurement(), whose error the broadcast catches.
deactivate ==
  /\ baseController.isActive
  /\ IF isBroadcasting
     THEN /\ baseController' = [baseController EXCEPT !.isActive = FALSE]
          /\ UNCHANGED << isBroadcasting, timers, measurementModule, overlayLayer >>
     ELSE LET cancelled == cancelCurrentMeasurementFrom(measurementModule, 1)
              rendering == IF cancelled.rendered
                           THEN renderMeasurements(cancelled.module,
                                  Append(timers, Timer("broadcastDone", 0, << >>)))
                           ELSE [module |-> cancelled.module, overlay |-> overlayLayer,
                                 timers |-> Append(timers, Timer("broadcastDone", 0, << >>))]
          IN /\ baseController' = [baseController EXCEPT
                                     !.isActive = FALSE,
                                     !.isEnabled = [name \in Modules |-> FALSE]]
             /\ isBroadcasting' = TRUE
             /\ measurementModule' = rendering.module
             /\ overlayLayer' = rendering.overlay
             /\ timers' = rendering.timers
  /\ UNCHANGED << transform, appTransform, imageLayer, engine, heap,
                  appMeasurements, thrown, appSelectedMeasurement >>

\* InteractionModule's handlers of the events on the container and of the
\* keys: handleMouseUp, handleClick, handleKeyDown with the key "1". Each
\* hands its event to broadcastInteraction, which sets a timer.
InteractionEvents == {"mouseup", "click", "keydown"}

broadcastInteraction(eventType) ==
  /\ baseController.isEnabled["interaction"]
  /\ eventType = "keydown" => baseController.isActive
  /\ timers' = Append(timers, Timer("interaction", InteractionDelay, << eventType >>))
  /\ UNCHANGED << transform, appTransform, imageLayer, overlayLayer, engine, heap,
                  appMeasurements, measurementModule, isBroadcasting, thrown,
                  appSelectedMeasurement, baseController >>

\* MeasurementModule's handler of a delivered interaction event, with no tool
\* chosen: onInteraction_click returns at once, onInteraction_keydown calls
\* setMeasurementMode("distance") for the key "1".
onInteraction(mm, eventType) ==
  IF eventType = "keydown" /\ baseController.isEnabled["measurement"]
  THEN setMeasurementModeFrom(mm, "distance", 1)
  ELSE [module |-> mm, thrown |-> "none", rendered |-> FALSE]

\* broadcastInteraction's timer: broadcastToModules("onInteraction_" + eventType),
\* which returns at once when a broadcast is under way.
deliverInteraction ==
  /\ Fires("interaction")
  /\ measurementModule.mode = "null"
  /\ LET eventType == timers[Due].value[1]
         handled == onInteraction(measurementModule, eventType)
         released == Append(Remaining, Timer("broadcastDone", 0, << >>))
         rendering == IF handled.rendered
                      THEN renderMeasurements(handled.module, released)
                      ELSE [module |-> handled.module, overlay |-> overlayLayer,
                            timers |-> released]
     IN IF isBroadcasting
        THEN /\ timers' = Remaining
             /\ UNCHANGED << isBroadcasting, baseController, measurementModule,
                             overlayLayer >>
        ELSE /\ isBroadcasting' = TRUE
             /\ baseController' = [baseController EXCEPT
                                     !.delivered = Append(@, eventType)]
             /\ measurementModule' = rendering.module
             /\ overlayLayer' = rendering.overlay
             /\ timers' = rendering.timers
  /\ UNCHANGED << transform, appTransform, imageLayer, engine, heap,
                  appMeasurements, thrown, appSelectedMeasurement >>

\* The time until something can happen: a timer falls due or the render window
\* closes.
RECURSIVE MinDelay(_, _)
MinDelay(tm, least) ==
  IF tm = << >> THEN least
  ELSE MinDelay(Tail(tm), Min(least, Head(tm).delay))

Wait ==
  IF measurementModule.sinceRender < RenderWindow
  THEN MinDelay(timers, RenderWindow - measurementModule.sinceRender)
  ELSE MinDelay(Tail(timers), Head(timers).delay)

\* Time passes, while no timer is due, until something can happen.
Tick ==
  /\ Due = 0
  /\ timers # << >> \/ measurementModule.sinceRender < RenderWindow
  /\ timers' = [ i \in 1..Len(timers) |-> [timers[i] EXCEPT !.delay = @ - Wait] ]
  /\ measurementModule' =
       [measurementModule EXCEPT !.sinceRender = Min(RenderWindow, @ + Wait)]
  /\ UNCHANGED << transform, appTransform, imageLayer, overlayLayer, engine, heap,
                  appMeasurements, isBroadcasting >>
  /\ UNCHANGED << thrown, appSelectedMeasurement, baseController >>

\* ==========================================================================
\* Specifications
\* ==========================================================================
vars == << legacyVars, coordVars, renderVars >>

\* Each part's steps leave the other parts alone.
OnlyLegacy == UNCHANGED << coordVars, renderVars >>
OnlyCoord == UNCHANGED << legacyVars, renderVars >>
OnlyRender == UNCHANGED << legacyVars, coordVars >>

\* ------------------------------------------------------------------ bounds
PointInBounds(pt) ==
  /\ pt.imageX \in 0..MaxImageX
  /\ pt.imageY \in 0..MaxImageY

PointsInBounds(points) == \A i \in 1..Len(points) : PointInBounds(points[i])

\* The successor state stays within the bounds of the exploration.
WithinBounds ==
  /\ Len(measurementState'.measurements) <= MaxMeasurements
  /\ Len(measurementState'.currentPoints) <= MaxCurrentPoints
  /\ PointsInBounds(measurementState'.currentPoints)
  /\ \A i \in 1..Len(measurementState'.measurements) :
        PointsInBounds(measurementState'.measurements[i].points)
  /\ img'.left \in 0..(MaxPan * GridStep)
  /\ img'.top \in 0..(MaxPan * GridStep)

\* A user event arrives while few timers are pending and few objects exist.
RenderWithinBounds ==
  /\ Len(heap') <= MaxObjects
  /\ Len(timers) <= MaxPendingTimers
  /\ userEvents < MaxUserEvents
  /\ userEvents' = userEvents + 1

\* A timer's callback or the passing of time is no user event.
NoUserEvent == UNCHANGED userEvents

\* Part I: the viewer of viewerController.js.
Init == LegacyInit /\ CoordFresh /\ RenderFresh

Next ==
  \/ \E mode \in {"select", "pan"} : ModeButton(mode) /\ OnlyLegacy
  \/ \E mode \in {"distance", "angle", "area"} : MeasureButton(mode) /\ OnlyLegacy
  \/ ClearMeasurementsButton /\ OnlyLegacy
  \/ Zoom100Button /\ OnlyLegacy
  \/ ZoomFitButton /\ OnlyLegacy
  \/ handleMouseDown /\ OnlyLegacy
  \/ \E p \in PointerPositions : handleMouseMove(p) /\ WithinBounds /\ OnlyLegacy
  \/ handleMouseUp /\ OnlyLegacy
  \/ handleImageClick /\ WithinBounds /\ OnlyLegacy
  \/ handleContextMenu /\ WithinBounds /\ OnlyLegacy

Spec == Init /\ [][Next]_vars

\* Part I with the viewer shown again and again.
ShowNext ==
  \/ showViewer /\ OnlyLegacy
  \/ \E mode \in {"distance", "angle", "area"} : MeasureButton(mode) /\ OnlyLegacy
  \/ handleMouseDown /\ OnlyLegacy
  \/ \E p \in PointerPositions : handleMouseMove(p) /\ WithinBounds /\ OnlyLegacy
  \/ handleMouseUp /\ OnlyLegacy
  \/ imageClick /\ WithinBounds /\ OnlyLegacy

ShowSpec == Init /\ [][ShowNext]_vars

\* Part II: the coordinate transforms, applied to every input.
CoordInit == LegacyInit /\ CoordInputs /\ RenderFresh

CoordNext ==
  \/ DrawOnBothLayers /\ OnlyCoord
  \/ RoundTrip /\ OnlyCoord
  \/ \E canvas \in CanvasPositions : CapturePoint(canvas) /\ OnlyCoord

CoordSpec == CoordInit /\ [][CoordNext]_vars

\* Part III: the render pipeline, driven by the interaction layer.
\* The ids of the measurements on display, which the interaction layer
\* updates and deletes.
StoredIds == { heap[engine.measurements[i]].id : i \in 1..Len(engine.measurements) }

RenderNext ==
  \/ \E newTransform \in NewTransforms :
        applyTransform(newTransform) /\ RenderWithinBounds /\ OnlyRender
  \/ resetTransform /\ RenderWithinBounds /\ OnlyRender
  \/ fitToCanvas /\ RenderWithinBounds /\ OnlyRender
  \/ \E points \in PointPairs :
        createDistanceMeasurement(points) /\ RenderWithinBounds /\ OnlyRender
  \/ \E id \in StoredIds, points \in PointPairs :
        updateMeasurement(id, points) /\ RenderWithinBounds /\ OnlyRender
  \/ \E id \in StoredIds :
        deleteMeasurement(id) /\ RenderWithinBounds /\ OnlyRender
  \/ engineClearAllMeasurements /\ RenderWithinBounds /\ OnlyRender
  \/ recalculateAllMeasurements /\ RenderWithinBounds /\ OnlyRender
  \/ \E pixelSpacing \in PixelSpacings :
        setPixelSpacing(pixelSpacing) /\ RenderWithinBounds /\ OnlyRender
  \/ WindowResize /\ RenderWithinBounds /\ OnlyRender
  \/ NotifyMeasurements /\ NoUserEvent /\ OnlyRender
  \/ RenderingDone /\ NoUserEvent /\ OnlyRender
  \/ ForwardResize /\ NoUserEvent /\ OnlyRender
  \/ updateCanvasSize /\ NoUserEvent /\ OnlyRender
  \/ ResizeRender /\ NoUserEvent /\ OnlyRender
  \/ BroadcastDone /\ NoUserEvent /\ OnlyRender
  \/ Tick /\ NoUserEvent /\ OnlyRender

RenderSpec == Init /\ [][RenderNext]_vars

\* The browser runs every due timer and time does not stop.
TimersRun ==
  (NotifyMeasurements \/ RenderingDone \/ ForwardResize \/ updateCanvasSize
     \/ ResizeRender
     \/ BroadcastDone \/ Tick) /\ NoUserEvent /\ OnlyRender

RenderFairSpec == RenderSpec /\ WF_vars(TimersRun)

\* A call of the engine arrives while few timers are pending and few objects
\* exist.
StoreWithinBounds ==
  /\ Len(heap') <= MaxObjects
  /\ Len(timers) <= MaxPendingTimers
  /\ userEvents < MaxCalls
  /\ userEvents' = userEvents + 1

\* The measurement engine called directly, with every kind of argument; the
\* notifications it schedules are delivered.
StoreNext ==
  \/ \E points \in PointLists :
        createDistanceMeasurement(points) /\ StoreWithinBounds /\ OnlyRender
  \/ \E points \in PointLists :
        createAngleMeasurement(points) /\ StoreWithinBounds /\ OnlyRender
  \/ \E points \in PointLists :
        createAreaMeasurement(points) /\ StoreWithinBounds /\ OnlyRender
  \/ \E id \in 1..MaxObjects, points \in PointLists :
        updateMeasurement(id, points) /\ StoreWithinBounds /\ OnlyRender
  \/ \E id \in 1..MaxObjects :
        deleteMeasurement(id) /\ StoreWithinBounds /\ OnlyRender
  \/ engineClearAllMeasurements /\ StoreWithinBounds /\ OnlyRender
  \/ recalculateAllMeasurements /\ StoreWithinBounds /\ OnlyRender
  \/ \E input \in PixelSpacingInputs :
        setPixelSpacing(input) /\ StoreWithinBounds /\ OnlyRender
  \/ \E calibration \in Calibrations :
        setCalibration(calibration) /\ StoreWithinBounds /\ OnlyRender
  \/ \E data \in Imports :
        importMeasurements(data) /\ StoreWithinBounds /\ OnlyRender
  \/ \E id \in 1..MaxObjects :
        duplicateMeasurement(id) /\ StoreWithinBounds /\ OnlyRender
  \/ cleanup /\ StoreWithinBounds /\ OnlyRender
  \/ NotifyMeasurements /\ NoUserEvent /\ OnlyRender
  \/ RenderingDone /\ NoUserEvent /\ OnlyRender
  \/ Tick /\ NoUserEvent /\ OnlyRender

StoreSpec == Init /\ [][StoreNext]_vars

\* Part III: the transform alone, under every operation that sets it, and
\* the resizes of the canvas.
TransformNext ==
  \/ \E deltaY \in {-1, 1}, canvas \in WheelPositions :
        handleWheel(deltaY, canvas) /\ RenderWithinBounds /\ OnlyRender
  \/ \E factor \in ZoomFactors : zoom(factor) /\ RenderWithinBounds /\ OnlyRender
  \/ \E newTransform \in NewTransforms :
        applyTransform(newTransform) /\ RenderWithinBounds /\ OnlyRender
  \/ resetTransform /\ RenderWithinBounds /\ OnlyRender
  \/ fitToCanvas /\ RenderWithinBounds /\ OnlyRender
  \/ WindowResize /\ RenderWithinBounds /\ OnlyRender
  \/ ForwardResize /\ NoUserEvent /\ OnlyRender
  \/ updateCanvasSize /\ NoUserEvent /\ OnlyRender
  \/ ResizeRender /\ NoUserEvent /\ OnlyRender
  \/ RenderingDone /\ NoUserEvent /\ OnlyRender
  \/ BroadcastDone /\ NoUserEvent /\ OnlyRender
  \/ Tick /\ NoUserEvent /\ OnlyRender

TransformSpec == Init /\ [][TransformNext]_vars

\* Part III: the store and the selection of appState, under the calls that
\* create, select and delete.
SelectionNext ==
  \/ \E points \in PointPairs :
        createDistanceMeasurement(points) /\ RenderWithinBounds /\ OnlyRender
  \/ \E value \in {NoSelection} \cup (1..MaxObjects) :
        selectMeasurement(value) /\ RenderWithinBounds /\ OnlyRender
  \/ \E id \in 1..MaxObjects :
        deleteMeasurement(id) /\ RenderWithinBounds /\ OnlyRender
  \/ \E id \in 1..MaxObjects :
        dispatchDeleteMeasurement(id) /\ RenderWithinBounds /\ OnlyRender
  \/ handleDeleteMeasurement /\ NoUserEvent /\ OnlyRender
  \/ NotifyMeasurements /\ NoUserEvent /\ OnlyRender
  \/ RenderingDone /\ NoUserEvent /\ OnlyRender
  \/ Tick /\ NoUserEvent /\ OnlyRender

SelectionSpec == Init /\ [][SelectionNext]_vars

\* Part III: the engine's calculations, called under every pixel spacing
\* setPixelSpacing leaves.
CalculateNext ==
  \/ \E input \in CalculatorSpacings :
        setPixelSpacing(input) /\ RenderWithinBounds /\ OnlyRender
  \/ \E points \in Segments : calculateDistanceCall(points) /\ OnlyCoord
  \/ \E points \in Polygons : calculateAreaCall(points) /\ OnlyCoord

CalculateSpec == Init /\ [][CalculateNext]_vars

\* Part III: angles, calculated on their own, created and edited.
AngleNext ==
  \/ \E points \in AngleTriples : calculateAngleCall(points) /\ OnlyCoord
  \/ \E points \in AngleTriples :
        createAngleMeasurement(points) /\ RenderWithinBounds /\ OnlyRender
  \/ \E id \in StoredIds, points \in AngleTriples :
        updateMeasurement(id, points) /\ RenderWithinBounds /\ OnlyRender
  \/ NotifyMeasurements /\ NoUserEvent /\ OnlyRender
  \/ RenderingDone /\ NoUserEvent /\ OnlyRender
  \/ Tick /\ NoUserEvent /\ OnlyRender

AngleSpec == Init /\ [][AngleNext]_vars

\* Part III, the controller and its modules: the tool buttons, the view's
\* activation and the interaction events.
ModuleNext ==
  \/ \E mode \in Tools :
       moduleSetMeasurementMode(mode) /\ RenderWithinBounds /\ OnlyRender
  \/ moduleCancelCurrentMeasurement /\ RenderWithinBounds /\ OnlyRender
  \/ activate /\ RenderWithinBounds /\ OnlyRender
  \/ deactivate /\ RenderWithinBounds /\ OnlyRender
  \/ \E eventType \in InteractionEvents :
       broadcastInteraction(eventType) /\ RenderWithinBounds /\ OnlyRender
  \/ deliverInteraction /\ NoUserEvent /\ OnlyRender
  \/ BroadcastDone /\ NoUserEvent /\ OnlyRender
  \/ ResizeRender /\ NoUserEvent /\ OnlyRender
  \/ RenderingDone /\ NoUserEvent /\ OnlyRender
  \/ Tick /\ NoUserEvent /\ OnlyRender

ModuleSpec == Init /\ [][ModuleNext]_vars

\* ==========================================================================
\* Claims
\* ==========================================================================
\* C1: under every TransformState, rotated ones included, the overlay pass and
\* the image pass draw every image point at the same canvas position.
C1_SamePositionOnBothLayers ==
  computed.op = "draw" => computed.overlay = computed.image

\* C2: after every transform change the overlay is redrawn under the new
\* transform: an overlay drawn under another transform than the image is
\* eventually drawn under the image's.
OverlayStale ==
  /\ overlayLayer.drawn
  /\ imageLayer.drawn
  /\ overlayLayer.transform # imageLayer.transform

C2_OverlayFollowsTransform == OverlayStale ~> ~OverlayStale

\* The measurements the overlay shows, and those in the store.
OverlayShows ==
  { overlayLayer.measurements[i] : i \in 1..Len(overlayLayer.measurements) }

InStore == { heap[engine.measurements[i]] : i \in 1..Len(engine.measurements) }

\* C3: after every store change the overlay eventually shows exactly the
\* measurements in the store, however quickly the changes follow one another.
C3_OverlayShowsStore == (OverlayShows # InStore) ~> (OverlayShows = InStore)

\* C4: for every transform and every image point inside the image,
\* canvasToImageCoords returns the point imageToCanvasCoords was given.
C4_RoundTripIsIdentity ==
  computed.op = "roundTrip" =>
    /\ 10 * computed.image.x = pointIn.imageX
    /\ 10 * computed.image.y = pointIn.imageY

RequiredPoints(mode) == IF mode = "distance" THEN 2 ELSE 3

LastMeasurement(ms) == ms.measurements[Len(ms.measurements)]

\* ms2 is ms1 with one measurement of the given type, made of exactly the given
\* points, appended and selected, the capture emptied and the tool released.
CreatedFrom(ms1, ms2, type, points) ==
  /\ Len(ms2.measurements) = Len(ms1.measurements) + 1
  /\ SubSeq(ms2.measurements, 1, Len(ms1.measurements)) = ms1.measurements
  /\ LastMeasurement(ms2).type = type
  /\ LastMeasurement(ms2).points = points
  /\ LastMeasurement(ms2).ref \notin Refs(ms1.measurements)
  /\ ms2.currentPoints = << >>
  /\ ms2.mode = "none"
  /\ ms2.selectedMeasurement = LastMeasurement(ms2).ref

\* C5: a click while the Distance (Angle) tool is active appends the clicked
\* point to currentPoints; when that makes 2 (3) points, exactly one measurement
\* of that type is created from exactly those points, currentPoints is emptied,
\* the tool is released and the new measurement is the selected one.
C5_ToolClickCapturesAndCompletes ==
  [][ (handleImageClick /\ measurementState.mode \in {"distance", "angle"}) =>
        LET points == Append(measurementState.currentPoints,
                             StoredPoint(getImagePoint(pointer, img)))
        IN IF Len(points) = RequiredPoints(measurementState.mode)
           THEN CreatedFrom(measurementState, measurementState',
                            measurementState.mode, points)
           ELSE /\ measurementState'.currentPoints = points
                /\ measurementState'.measurements = measurementState.measurements
                /\ measurementState'.mode = measurementState.mode
    ]_legacyVars

\* A click has just completed an Angle measurement, after a Distance one.
C5_Witness ==
  /\ event = "click"
  /\ Len(measurementState.measurements) = 2
  /\ measurementState.measurements[1].type = "distance"
  /\ measurementState.measurements[2].type = "angle"
  /\ measurementState.selectedMeasurement = measurementState.measurements[2].ref
  /\ measurementState.mode = "none"
  /\ measurementState.currentPoints = << >>

\* C6: choosing a measurement tool, from any reachable state (Pan mode, a capture
\* under way, a measurement selected, a drag in progress), leaves mode = select,
\* the chosen tool active, currentPoints empty and nothing selected.
C6_ToolSelection ==
  [][ \A mode \in Tools :
        MeasureButton(mode) =>
          /\ viewerState'.mode = "select"
          /\ measurementState'.mode = mode
          /\ measurementState'.currentPoints = << >>
          /\ measurementState'.selectedMeasurement = NoRef
    ]_legacyVars

\* A tool has just been chosen while the image was being dragged in Pan mode.
C6_Witness ==
  /\ event = "setMeasurementMode"
  /\ viewerState.dragTarget.kind = "image"
  /\ viewerState.mode = "select"
  /\ measurementState.mode = "area"
  /\ Len(measurementState.measurements) >= 1

\* C7: a contextmenu creates an Area measurement (from exactly the captured
\* points) only when the Area tool holds at least 3 points and otherwise
\* changes nothing of the measurement state; a click in Area mode only appends
\* its point and never completes the measurement.
C7_AreaCompletionGating ==
  [][ /\ handleContextMenu =>
           IF /\ measurementState.mode = "area"
              /\ Len(measurementState.currentPoints) >= 3
           THEN CreatedFrom(measurementState, measurementState', "area",
                            measurementState.currentPoints)
           ELSE measurementState' = measurementState
      /\ (handleImageClick /\ measurementState.mode = "area") =>
           /\ measurementState'.currentPoints =
                Append(measurementState.currentPoints,
                       StoredPoint(getImagePoint(pointer, img)))
           /\ measurementState'.measurements = measurementState.measurements
           /\ measurementState'.mode = "area"
    ]_legacyVars

\* A contextmenu has just completed an Area measurement of three points.
C7_Witness ==
  /\ event = "contextmenu"
  /\ Len(measurementState.measurements) >= 1
  /\ LastMeasurement(measurementState).type = "area"
  /\ Len(LastMeasurement(measurementState).points) = 3
  /\ measurementState.selectedMeasurement = LastMeasurement(measurementState).ref
  /\ measurementState.mode = "none"

\* m2 is m1 with the point at 0-based index k replaced by pt, value and label
\* recomputed, and every other point as it was.
OnlyPointMoved(m1, m2, k, pt) ==
  /\ m2.ref = m1.ref
  /\ m2.type = m1.type
  /\ Len(m2.points) = Len(m1.points)
  /\ \A j \in 1..Len(m1.points) :
        m2.points[j] = IF j = k + 1 THEN pt ELSE m1.points[j]
  /\ m2.value = recalculateMeasurement(m2).value
  /\ m2.label = recalculateMeasurement(m2).label

\* C8: while a point is being dragged, a pointer move changes only the targeted
\* point of the targeted measurement and recomputes that measurement's value
\* and label; every other point and measurement and the number of measurements
\* stay as they were; the pointer-up clears dragTarget.
C8_DragEditFrame ==
  [][ /\ \A p \in PointerPositions :
           (handleMouseMove(p) /\ viewerState.isDragging
                               /\ viewerState.dragTarget.kind = "point") =>
             /\ Len(measurementState'.measurements) = Len(measurementState.measurements)
             /\ \A i \in 1..Len(measurementState.measurements) :
                   IF measurementState.measurements[i].ref = viewerState.dragTarget.measurement
                   THEN OnlyPointMoved(measurementState.measurements[i],
                                       measurementState'.measurements[i],
                                       viewerState.dragTarget.pointIndex,
                                       StoredPoint(getImagePoint(p, img)))
                   ELSE measurementState'.measurements[i] = measurementState.measurements[i]
             /\ measurementState'.currentPoints = measurementState.currentPoints
             /\ viewerState' = viewerState
      /\ handleMouseUp =>
           /\ viewerState'.dragTarget = NoDragTarget
           /\ viewerState'.isDragging = FALSE
           /\ measurementState'.measurements = measurementState.measurements
    ]_legacyVars

\* A pointer move has just dragged a point of the selected measurement while
\* another measurement is listed.
C8_Witness ==
  /\ event = "mousemove"
  /\ viewerState.isDragging
  /\ viewerState.dragTarget.kind = "point"
  /\ viewerState.dragTarget.measurement = measurementState.selectedMeasurement
  /\ Len(measurementState.measurements) = 2

\* C9: in select mode with no tool active, a click on the selected measurement
\* deselects it, a click on another measurement selects that one, and a click
\* on no measurement clears the selection; the click changes neither the
\* measurements nor the captured points.
C9_SelectionByClick ==
  [][ (handleImageClick /\ viewerState.mode = "select"
                        /\ measurementState.mode = "none") =>
        LET hit == getClickedMeasurement(pointer, measurementState.measurements, img)
        IN /\ measurementState'.selectedMeasurement =
                IF hit = NoRef THEN NoRef
                ELSE IF hit = measurementState.selectedMeasurement THEN NoRef
                ELSE hit
           /\ measurementState'.measurements = measurementState.measurements
           /\ measurementState'.currentPoints = measurementState.currentPoints
    ]_legacyVars

\* A click has just moved the selection to the first of two measurements.
C9_Witness ==
  /\ event = "click"
  /\ measurementState.mode = "none"
  /\ Len(measurementState.measurements) = 2
  /\ measurementState.selectedMeasurement = measurementState.measurements[1].ref
  /\ measurementState.currentPoints = << >>

\* C10: in Pan mode no tool is active and no point is captured.
C10_PanHasNoTool ==
  viewerState.mode = "pan" =>
    /\ measurementState.mode = "none"
    /\ measurementState.currentPoints = << >>

\* Pan mode, with the image being dragged and a measurement listed.
C10_Witness ==
  /\ viewerState.mode = "pan"
  /\ viewerState.isDragging
  /\ Len(measurementState.measurements) >= 1

\* A pointer event handled by the legacy viewer: mousedown, mousemove,
\* mouseup or click.
PointerEvent ==
  \/ handleMouseDown
  \/ \E p \in PointerPositions : handleMouseMove(p)
  \/ handleMouseUp
  \/ handleImageClick

\* C11: while the mode is Pan, pointer-down, pointer-move, pointer-up and
\* click never append to the captured points, never change the selection and
\* never create, modify or delete a measurement.
C11_PanPointerFrame ==
  [][ (PointerEvent /\ viewerState.mode = "pan") =>
        /\ measurementState'.currentPoints = measurementState.currentPoints
        /\ measurementState'.selectedMeasurement = measurementState.selectedMeasurement
        /\ measurementState'.measurements = measurementState.measurements
    ]_legacyVars

\* C12: a click on the tool button that is already active leaves no captured
\* point and no tool active.
C12_ToolReclickCancels ==
  [][ \A mode \in Tools :
        (MeasureButton(mode) /\ measurementState.mode = mode) =>
          /\ measurementState'.currentPoints = << >>
          /\ measurementState'.mode = "none"
    ]_legacyVars

\* C13: a tool or mode switch made while a drag is in progress discards the
\* drag: afterwards nothing is being dragged.
C13_SwitchDiscardsDrag ==
  [][ ( /\ viewerState.isDragging
        /\ \/ \E mode \in {"select", "pan"} : ModeButton(mode)
           \/ \E mode \in Tools : MeasureButton(mode) ) =>
        /\ viewerState'.isDragging = FALSE
        /\ viewerState'.dragTarget = NoDragTarget
    ]_legacyVars

\* C14: the ids of the measurement objects are strictly increasing in creation
\* order, so no id is assigned twice over the lifetime of the store.
C14_IdsNeverReused ==
  \A i, j \in DOMAIN heap : i < j => heap[i].id < heap[j].id

\* The number of points the type of a measurement allows.
PointCountAllowed(type, count) ==
  IF type = "distance" THEN count = 2
  ELSE IF type = "angle" THEN count = 3
  ELSE count >= 3

\* C15: every stored distance has exactly 2 points, every stored angle
\* exactly 3 and every stored area at least 3.
C15_StoredPointCounts ==
  \A i \in 1..Len(engine.measurements) :
     PointCountAllowed(heap[engine.measurements[i]].type,
                       Len(heap[engine.measurements[i]].points))

\* The measurement objects in the store.
Stored == { engine.measurements[i] : i \in 1..Len(engine.measurements) }

\* A call that creates a measurement from captured points.
CreateCall ==
  \E points \in PointLists :
     \/ createDistanceMeasurement(points)
     \/ createAngleMeasurement(points)
     \/ createAreaMeasurement(points)

FailedWith(error) ==
  /\ thrown' = error
  /\ UNCHANGED << engine, heap, appMeasurements, timers >>

\* C17: a create call with a point count its type does not allow (a distance
\* without exactly 2 points, an angle without exactly 3, an area with fewer
\* than 3) throws and has no effect.
C17_InvalidCreateFails ==
  [][ \A points \in PointLists :
        /\ (createDistanceMeasurement(points) /\ Len(points) # 2)
              => FailedWith("point count")
        /\ (createAngleMeasurement(points) /\ Len(points) # 3)
              => FailedWith("point count")
        /\ (createAreaMeasurement(points) /\ Len(points) < 3)
              => FailedWith("point count")
    ]_renderVars

\* A create call has been refused while the store holds a measurement.
C17_Witness ==
  /\ thrown = "point count"
  /\ Len(engine.measurements) = 1
  /\ engine.measurementId = 1

\* C18: updateMeasurement with an id that is not in the store throws the
\* not-found error and leaves every stored measurement as it was.
C18_UpdateUnknownIdFails ==
  [][ \A id \in 1..MaxObjects, points \in PointLists :
        (updateMeasurement(id, points) /\ id \notin StoredIds)
           => FailedWith("not found")
    ]_renderVars

\* A call has been refused for an unknown id after the only measurement was
\* deleted.
C18_Witness ==
  /\ thrown = "not found"
  /\ Len(heap) = 1
  /\ engine.measurements = << >>
  /\ engine.measurementId = 1

\* C19: deleteMeasurement with an id that is not in the store throws nothing
\* and changes nothing, so a second delete of an id leaves the store the
\* first left; clearAllMeasurements on an empty store throws nothing and
\* leaves it empty.
C19_DeleteIsIdempotent ==
  [][ /\ \A id \in 1..MaxObjects :
           (deleteMeasurement(id) /\ id \notin StoredIds) =>
              /\ thrown' = "none"
              /\ UNCHANGED << engine, heap, appMeasurements, timers >>
      /\ (engineClearAllMeasurements /\ engine.measurements = << >>) =>
              /\ thrown' = "none"
              /\ engine'.measurements = << >>
    ]_renderVars

\* Three calls have been made without error, the only measurement is deleted
\* and the store is empty: a delete or a clear-all has run on the empty store.
C19_Witness ==
  /\ userEvents = MaxCalls
  /\ thrown = "none"
  /\ Len(heap) = 1
  /\ engine.measurements = << >>
  /\ engine.measurementId = 1
  /\ engine.pixelSpacing = << >>

\* C20: setPixelSpacing called with anything but a pair, or a delimited
\* string, of two positive numbers throws nothing and leaves the calibration
\* as it was.
C20_MalformedSpacingIgnored ==
  [][ \A input \in PixelSpacingInputs :
        (setPixelSpacing(input) /\ ~WellFormed(input)) =>
           /\ thrown' = "none"
           /\ engine'.pixelSpacing = engine.pixelSpacing
    ]_renderVars

\* The stored measurement carries the value and the unit calculated from its
\* stored points under the spacing given.
UpToDate(object, pixelSpacing) ==
  /\ ~CalculateThrows(object.type, object.points)
  /\ object.value = Calculate(object.type, object.points, pixelSpacing).value
  /\ object.unit = Calculate(object.type, object.points, pixelSpacing).unit

\* C21: after setPixelSpacing has accepted a pair of positive numbers every
\* stored measurement carries the value and unit calculated from its stored
\* points under the new spacing, and while no spacing is set every stored
\* distance is in px and every stored area in px2.
C21_StoredValuesFollowCalibration ==
  [][ /\ \A input \in PixelSpacingInputs :
           (setPixelSpacing(input) /\ WellFormed(input)) =>
              \A ref \in Stored' : UpToDate(heap'[ref], engine'.pixelSpacing)
      /\ engine'.pixelSpacing = << >> =>
           \A ref \in Stored' :
              /\ heap'[ref].type = "distance" => heap'[ref].unit = "px"
              /\ heap'[ref].type = "area" => heap'[ref].unit = "px2"
    ]_renderVars

\* A call that changes the calibration or recalculates the stored values.
CalibrationCall ==
  \/ \E input \in PixelSpacingInputs : setPixelSpacing(input)
  \/ \E calibration \in Calibrations : setCalibration(calibration)
  \/ recalculateAllMeasurements

\* C22: a change of calibration or a recalculation changes neither the
\* number, nor the order, nor the coordinates of the points of any
\* measurement; only values and units change.
C22_CalibrationKeepsPoints ==
  [][ CalibrationCall =>
        /\ DOMAIN heap' = DOMAIN heap
        /\ \A ref \in DOMAIN heap :
              /\ heap'[ref].points = heap[ref].points
              /\ heap'[ref].id = heap[ref].id
              /\ heap'[ref].type = heap[ref].type
    ]_renderVars

\* The third call assigned a spacing and recalculated the first stored
\* measurement, now in mm, before the recalculation of the second threw.
C22_Witness ==
  /\ userEvents = 3
  /\ thrown = "TypeError"
  /\ Len(engine.measurements) = 2
  /\ heap[engine.measurements[1]].unit = "mm"
  /\ Len(heap[engine.measurements[1]].points) = 2
  /\ engine.pixelSpacing # << >>

\* C23: recalculateAllMeasurements is idempotent: a second call made right
\* after the first, with the calibration and the points as the first left
\* them, leaves every measurement's value and unit as the first left them.
C23_RecalculateIsIdempotent ==
  [][ recalculateAllMeasurements =>
        Recalculated(heap', engine'.measurements, engine'.pixelSpacing) = heap'
    ]_renderVars

\* The third call recalculated an imported measurement, now in px, before the
\* recalculation of the second, imported with a single point, threw.
C23_Witness ==
  /\ userEvents = 3
  /\ thrown = "TypeError"
  /\ engine.pixelSpacing = << >>
  /\ Len(engine.measurements) = 2
  /\ heap[engine.measurements[1]].unit = "px"
  /\ heap[engine.measurements[1]].value = 500
  /\ heap[engine.measurements[2]].points = SubSeq(Path(1), 2, 2)

\* C24: every call that returns with the store changed (a measurement added,
\* removed, or given new points, a new value or a new unit) schedules the
\* delivery of a change notification to the subscribers of
\* "viewer.measurements".
C24_EveryMutationNotifies ==
  [][ ( /\ thrown' = "none"
        /\ Objects(engine'.measurements, heap') # Objects(engine.measurements, heap) ) =>
        timers' = Append(timers, Timer("notify", 0, engine'.measurements))
    ]_renderVars

\* C25: a burst of window resize events produces one canvas resize: when
\* updateCanvasSize has run, no timer is left that leads to another
\* updateCanvasSize for the same burst.
C25_OneResizePerBurst ==
  [][ updateCanvasSize =>
        \A i \in 1..Len(timers') :
           timers'[i].kind \notin {"windowResize", "updateCanvasSize"}
    ]_renderVars

\* C26: every point captured for a new measurement lies inside the image,
\* wherever on the canvas the click landed.
C26_CapturedPointsInsideImage ==
  computed.op = "capture" =>
    /\ computed.point.imageX \in 0..(ImageWidth - 1)
    /\ computed.point.imageY \in 0..(ImageHeight - 1)

\* C27: in every reachable state the scale of the transform is strictly
\* greater than 0, whatever wheel zooms, zooms in and out, setZoom calls, fits
\* to the canvas, resets and canvas resizes came before, a fit to a canvas of
\* zero width or height included.
C27_ScaleStaysPositive == transform.scale > 0

\* C28: deleting a measurement, by the engine's deleteMeasurement or by the
\* DELETE_MEASUREMENT action, leaves the selected-measurement reference as it
\* was: with B selected, deleting A keeps the selection on B.
C28_DeleteKeepsSelection ==
  [][ ( \/ \E id \in 1..MaxObjects : deleteMeasurement(id)
        \/ handleDeleteMeasurement )
      => appSelectedMeasurement' = appSelectedMeasurement
    ]_renderVars

\* Measurement 2 is selected and stored, measurement 1 has been deleted.
C28_Witness ==
  /\ appSelectedMeasurement = 2
  /\ StoredIds = {2}
  /\ Len(heap) = 2
  /\ userEvents = 4

\* C29: calculateDistance returns as pixel distance the Euclidean norm of
\* (dx, dy); with no pixel spacing set it returns that value with unit px and
\* no real distance; with a spacing of two numbers set it returns unit mm and
\* as real distance sqrt((dx * colSpacing)^2 + (dy * rowSpacing)^2). The
\* points (0,0) and (3,4) give pixel distance 5 and, under spacing (1,1), real
\* distance 5 mm.
C29_DistanceFormula ==
  computed.op = "calculateDistance" =>
    LET points == computed.points
        pixelSpacing == computed.pixelSpacing
        result == computed.result
        dx == points[2].imageX - points[1].imageX
        dy == points[2].imageY - points[1].imageY
    IN /\ result.pixelDistance = ISqrt(10000 * (dx * dx + dy * dy))
       /\ pixelSpacing = << >> =>
            /\ result.realDistance = Null
            /\ result.value = result.pixelDistance
            /\ result.unit = "px"
       /\ (pixelSpacing # << >> /\ ~pixelSpacing[1].nan /\ ~pixelSpacing[2].nan) =>
            /\ result.unit = "mm"
            /\ result.realDistance =
                 Number(ISqrt(10000 * ( (dx * pixelSpacing[2].n) * (dx * pixelSpacing[2].n)
                                         + (dy * pixelSpacing[1].n) * (dy * pixelSpacing[1].n) )))
       /\ points = << ImagePoint(0, 0), ImagePoint(3, 4) >> =>
            /\ result.pixelDistance = 500
            /\ pixelSpacing = << Number(1), Number(1) >> =>
                 (result.realDistance = Number(500) /\ result.value = 500)

\* The distance from (0,0) to (3,4) has been calculated under spacing (1,2):
\* 3 columns of 2 mm and 4 rows of 1 mm.
C29_Witness ==
  /\ computed.op = "calculateDistance"
  /\ computed.points = << ImagePoint(0, 0), ImagePoint(3, 4) >>
  /\ computed.pixelSpacing = << Number(1), Number(2) >>
  /\ computed.result.realDistance = Number(721)
  /\ computed.result.unit = "mm"

\* C30: calculateArea returns as pixel area the absolute value of the Shoelace
\* sum of the ordered points, halved; with no pixel spacing set it returns
\* that value with unit px2 and no real area; with a spacing of two numbers
\* set it returns unit mm2 and as real area the pixel area times rowSpacing
\* times colSpacing. The square (0,0), (10,0), (10,10), (0,10) gives 100 px2
\* and, under spacing (2,2), 400 mm2.
C30_AreaFormula ==
  computed.op = "calculateArea" =>
    LET points == computed.points
        pixelSpacing == computed.pixelSpacing
        result == computed.result
    IN /\ result.pixelArea = (100 * Abs(ShoelaceSum(points, 1))) \div 2
       /\ result.pixelArea >= 0
       /\ pixelSpacing = << >> =>
            /\ result.realArea = Null
            /\ result.value = result.pixelArea
            /\ result.unit = "px2"
       /\ (pixelSpacing # << >> /\ ~pixelSpacing[1].nan /\ ~pixelSpacing[2].nan) =>
            /\ result.unit = "mm2"
            /\ result.realArea =
                 Number(result.pixelArea * pixelSpacing[1].n * pixelSpacing[2].n)
       /\ points = << ImagePoint(0, 0), ImagePoint(10, 0),
                      ImagePoint(10, 10), ImagePoint(0, 10) >> =>
            /\ result.pixelArea = 10000
            /\ pixelSpacing = << Number(2), Number(2) >> =>
                 (result.realArea = Number(40000) /\ result.value = 40000)

\* The area of the square of side 10 has been calculated under spacing (2,2).
C30_Witness ==
  /\ computed.op = "calculateArea"
  /\ computed.points = << ImagePoint(0, 0), ImagePoint(10, 0),
                          ImagePoint(10, 10), ImagePoint(0, 10) >>
  /\ computed.pixelSpacing = << Number(2), Number(2) >>
  /\ computed.result.realArea = Number(40000)
  /\ computed.result.unit = "mm2"

\* An arm of the angle has no length: p1 or p2 is the vertex.
ZeroArm(points) == points[1] = points[2] \/ points[3] = points[2]

\* C31: when an arm of an angle has zero length (p1 or p2 is the vertex),
\* calculateAngle returns 0 degrees and throws nothing, and an angle
\* measurement created with such points, or edited into them, has value 0.
C31_ZeroArmGivesZero ==
  /\ thrown = "none"
  /\ (computed.op = "calculateAngle" /\ ZeroArm(computed.points)) =>
        computed.result.value = 0
  /\ \A i \in 1..Len(engine.measurements) :
        LET object == heap[engine.measurements[i]]
        IN (object.type = "angle" /\ ZeroArm(object.points)) => object.value = 0

\* An angle with a zero arm has been calculated, and the store holds an angle
\* measurement that was edited into such points.
C31_Witness ==
  /\ computed.op = "calculateAngle"
  /\ ZeroArm(computed.points)
  /\ computed.result.value = 0
  /\ Len(engine.measurements) = 1
  /\ ZeroArm(heap[1].points)
  /\ heap[1].value = 0
  /\ userEvents = 2

\* C32: MeasurementModule.setMeasurementMode(mode) and
\* cancelCurrentMeasurement() return normally, the first with state.mode the
\* requested mode, the second with state.mode null, both with
\* state.currentMeasurement null.
C32_ModeCallsReturn ==
  [][ /\ \A mode \in Tools :
           moduleSetMeasurementMode(mode) =>
             /\ thrown' = "none"
             /\ measurementModule'.mode = mode
             /\ measurementModule'.currentMeasurement = "null"
      /\ moduleCancelCurrentMeasurement =>
           /\ thrown' = "none"
           /\ measurementModule'.mode = "null"
           /\ measurementModule'.currentMeasurement = "null" ]_vars

\* C33: when activate() takes the viewer from inactive to active, every
\* module receives onActivate and is enabled afterwards.
C33_ActivateEnablesModules ==
  [][ ~baseController.isActive /\ baseController'.isActive =>
        \A name \in Modules : baseController'.isEnabled[name] ]_vars

\* The interaction events whose timers are pending.
PendingInteractions(tm) == SelectSeq(tm, LAMBDA t : t.kind = "interaction")

\* C34: every interaction event that was broadcast is delivered to the
\* modules when its timer fires; none is dropped by the _isBroadcasting guard.
C34_InteractionDelivered ==
  [][ Len(PendingInteractions(timers')) < Len(PendingInteractions(timers)) =>
        baseController'.delivered =
          Append(baseController.delivered, timers[Due].value[1]) ]_vars

\* Two interaction events were broadcast back-to-back and nothing else was
\* done: one was delivered, none is pending.
C34_BackToBackDropped ==
  /\ userEvents = 2
  /\ baseController.isActive
  /\ thrown = "none"
  /\ Len(baseController.delivered) = 1
  /\ PendingInteractions(timers) = << >>
  /\ \A name \in Modules : baseController.isEnabled[name]

\* C35: the click that follows a drag gesture is ignored: when a mouseup has
\* ended a drag and the browser delivers the click, the selected measurement
\* stays selected and no point is captured.
C35_ClickAfterDragIgnored ==
  [][ /\ clickPending /\ ~clickPending'
      /\ event = "mouseup"
      /\ measurementState.selectedMeasurement # NoRef
      => /\ measurementState'.selectedMeasurement = measurementState.selectedMeasurement
         /\ measurementState'.currentPoints = measurementState.currentPoints ]_vars

\* The click at the pointer captured exactly one point: it was appended to
\* currentPoints, or it completed a measurement made of currentPoints and it.
CapturedOnePoint ==
  LET ms == measurementState
      captured == Append(ms.currentPoints, StoredPoint(getImagePoint(pointer, img)))
  IN \/ /\ measurementState'.currentPoints = captured
        /\ measurementState'.measurements = ms.measurements
     \/ /\ measurementState'.currentPoints = << >>
        /\ Len(measurementState'.measurements) = Len(ms.measurements) + 1
        /\ measurementState'.measurements[Len(ms.measurements) + 1].points = captured

\* C36: each click while a tool is active captures exactly one point, however
\* many times the viewer has been shown before.
C36_OnePointPerClick ==
  [][ clickPending /\ ~clickPending' /\ measurementState.mode # "none"
      => CapturedOnePoint ]_vars

\* With the viewer shown once, each click while a tool is active captures
\* exactly one point.
C36_OnePointPerClickShownOnce ==
  [][ clickPending /\ ~clickPending' /\ measurementState.mode # "none"
      /\ img.listeners = 1
      => CapturedOnePoint ]_vars

\* C37: selectedMeasurement is null or a measurement of the measurements list,
\* and a measurement drag target is a measurement of the list.
C37_NoDanglingReference ==
  /\ \/ measurementState.selectedMeasurement = NoRef
     \/ measurementState.selectedMeasurement \in Refs(measurementState.measurements)
  /\ viewerState.dragTarget.kind = "point" =>
       viewerState.dragTarget.measurement \in Refs(measurementState.measurements)

\* C39: with no tool chosen currentPoints is empty, and between events the
\* Distance tool holds fewer than 2 captured points, the Angle tool fewer
\* than 3.
C39_PointsBelowCompletion ==
  /\ measurementState.mode = "none" => measurementState.currentPoints = << >>
  /\ measurementState.mode = "distance" => Len(measurementState.currentPoints) < 2
  /\ measurementState.mode = "angle" => Len(measurementState.currentPoints) < 3

\* A Distance measurement was completed at its second point, which left no
\* tool chosen, and the Angle tool chosen next holds two points.
C39_Witness ==
  /\ Len(measurementState.measurements) = 1
  /\ measurementState.measurements[1].type = "distance"
  /\ measurementState.mode = "angle"
  /\ Len(measurementState.currentPoints) = 2

\* C38: every measurement in the store carries the value and the unit (and so
\* the label made of them) that its type's calculation gives for its stored
\* points under the current calibration, so that recalculateAllMeasurements
\* would change nothing.
C38_StoredValuesMatchGeometry ==
  \A ref \in Stored : UpToDate(heap[ref], engine.pixelSpacing)

\* C40: after any sequence of zoom operations the scale lies within
\* 10% .. 500%.
C40_ScaleWithinRange ==
  MinScale <= transform.scale /\ transform.scale <= MaxScale

====
